---- MODULE Spec2Model ----
(***************************************************************************)
(* A model of three parts of the keras excerpt:                            *)
(*   - the SGD / momentum optimizer exercised by                           *)
(*     keras/optimizers/optimizer_v2/gradient_descent_test.py (the         *)
(*     optimizer itself, gradient_descent.py, is not part of the excerpt;  *)
(*     its update rule is written from the specification and the tests);   *)
(*   - keras/preprocessing/sequence.py (pad_sequences, skipgrams,          *)
(*     make_sampling_table, TimeseriesGenerator);                          *)
(*   - keras/optimizers/__init__.py (get, deserialize).                    *)
(* Each part has its own specification; the variables of the other parts   *)
(* stay at their initial values in it.                                     *)
(* Real numbers are exact rationals <<numerator, denominator>>, so the     *)
(* floating-point rounding the tests tolerate (assertAllClose) is not      *)
(* modelled.                                                               *)
(***************************************************************************)
EXTENDS Integers, Sequences, FiniteSets, TLC

VARIABLES
    mode,     \* how the test runs: "graph" or "eager"
    args,     \* the arguments of the SGD(...) constructor call
    opt,      \* the optimizer under test: construction state, config, iterations
    slots,    \* opt's "momentum" slots: a mapping variable -> rows
    vars,     \* the tf.Variables: variable -> rows
    ops,      \* graph mode: the update ops built by apply_gradients
    hist,     \* the gradients of the updates executed so far, in order
    lrUsed,   \* the learning rate each variable of the latest update used
    opt2,     \* the optimizer rebuilt by SGD.from_config(opt.get_config())
    padIn,    \* the arguments of the pad_sequences call
    padOut,   \* what the pad_sequences call returned or raised
    skIn,     \* the arguments of the skipgrams call
    skOut,    \* what the skipgrams call returned, and the draws it made
    tsIn,     \* the arguments of the TimeseriesGenerator(...) call
    gen,      \* the TimeseriesGenerator: construction state and attributes
    tsOut,    \* the result of the latest call on gen
    skPre,    \* skipgrams: the couples and labels before the final shuffle
    skOut2,   \* what a second skipgrams call with the same arguments returned
    tblIn,    \* the arguments of the make_sampling_table call
    tblOut,   \* what the make_sampling_table call returned or raised
    regIn,    \* the call of optimizers.get or optimizers.deserialize
    regCfg,   \* the caller's configuration mapping, a mutable dict
    regOut    \* what that call returned or raised

vars_opt == <<mode, args, opt, slots, vars, ops, hist, lrUsed, opt2>>
vars_pad == <<padIn, padOut>>
vars_skip == <<skIn, skOut, skPre, skOut2>>
vars_ts == <<tsIn, gen, tsOut>>
vars_tbl == <<tblIn, tblOut>>
vars_reg == <<regIn, regCfg, regOut>>
vars_all ==
    <<mode, args, opt, slots, vars, ops, hist, lrUsed, opt2, padIn, padOut,
      skIn, skOut, tsIn, gen, tsOut, skPre, skOut2, tblIn, tblOut,
      regIn, regCfg, regOut>>

----------------------------------------------------------------------------
(* Bounds of the model.                                                    *)

\* the number of updates one optimizer instance executes
MaxSteps == 2

----------------------------------------------------------------------------
(* Exact rational arithmetic.                                              *)

Abs(n) == IF n < 0 THEN -n ELSE n

RECURSIVE GCD(_, _)
GCD(a, b) == IF b = 0 THEN a ELSE GCD(b, a % b)

\* the rational n/d in lowest terms with a positive denominator
Rat(n, d) ==
    LET g == GCD(Abs(n), Abs(d))
        s == IF d < 0 THEN -1 ELSE 1
    IN  <<(s * n) \div g, (s * d) \div g>>

Zero == Rat(0, 1)
One == Rat(1, 1)

RAdd(x, y) ==
    LET g == GCD(x[2], y[2])
    IN  Rat(x[1] * (y[2] \div g) + y[1] * (x[2] \div g), x[2] * (y[2] \div g))

RNeg(x) == <<-x[1], x[2]>>

RSub(x, y) == RAdd(x, RNeg(y))

RMul(x, y) ==
    LET a == Rat(x[1], y[2])
        b == Rat(y[1], x[2])
    IN  <<a[1] * b[1], a[2] * b[2]>>

RDiv(x, y) == RMul(x, Rat(y[2], y[1]))

RLess(x, y) == x[1] * y[2] < y[1] * x[2]

RInt(n) == Rat(n, 1)

----------------------------------------------------------------------------
(* The fixtures of the tests.                                              *)

VarIds == {"var0", "var1"}

\* apply_gradients visits zip(grads, vars) in order
VarOrder == <<"var0", "var1">>

\* var0 = [1.0, 2.0], var1 = [3.0, 4.0]; each row is one number
InitVars ==
    [v \in VarIds |->
        IF v = "var0" THEN <<RInt(1), RInt(2)>> ELSE <<RInt(3), RInt(4)>>]

\* grads0 holds 0.1, grads1 holds 0.01
GradValue(v) == IF v = "var0" THEN Rat(1, 10) ELSE Rat(1, 100)

NumRows(v) == Len(InitVars[v])

DenseGrad(v) ==
    [kind |-> "dense", indices |-> <<>>,
     values |-> [r \in 1..NumRows(v) |-> GradValue(v)]]

\* the index lists of the tf.IndexedSlices gradients (rows are numbered from
\* 0): one row, every row, and one row twice; grads0 names row 0 first and
\* grads1 row 1
SparseIndices(v) ==
    IF v = "var0" THEN {<<0>>, <<0, 1>>, <<0, 0>>} ELSE {<<1>>, <<1, 1>>}

SparseGrad(v, idx) ==
    [kind |-> "sparse", indices |-> idx,
     values |-> [k \in 1..Len(idx) |-> GradValue(v)]]

GradsFor(v) == {DenseGrad(v)} \cup {SparseGrad(v, idx) : idx \in SparseIndices(v)}

\* the grads_and_vars arguments: a gradient for each variable of a non-empty set
GradsAndVars ==
    UNION {{gv \in [S -> UNION {GradsFor(v) : v \in S}] :
                \A v \in S : gv[v] \in GradsFor(v)} :
           S \in (SUBSET VarIds) \ {{}}}

----------------------------------------------------------------------------
(* Learning rates and the optimizer's constructor.                         *)

\* a constant learning rate (SGD(3.0), SGD(learning_rate=2.0))
ConstantLr(x) ==
    [kind |-> "const", initial_learning_rate |-> x,
     decay_steps |-> One, decay_rate |-> Zero]

\* learning_rate_schedule.InverseTimeDecay(initial, decay_steps, decay_rate)
InverseTimeDecay(initial, steps, rate) ==
    [kind |-> "InverseTimeDecay", initial_learning_rate |-> initial,
     decay_steps |-> steps, decay_rate |-> rate]

\* InverseTimeDecay.__call__(step) = initial / (1 + decay_rate * step / decay_steps)
ScheduleValue(lr, step) ==
    RDiv(lr.initial_learning_rate,
         RAdd(One, RDiv(RMul(lr.decay_rate, RInt(step)), lr.decay_steps)))

\* the learning rates, momenta and decays the tests construct optimizers with
LearningRates ==
    {ConstantLr(RInt(2)), ConstantLr(RInt(3)),
     InverseTimeDecay(RInt(3), One, Rat(1, 2))}

Momenta == {Rat(-1, 10), Zero, Rat(9, 10), RInt(2)}

Decays == {Zero, Rat(1, 2)}

\* the keyword arguments of SGD(...); a schedule comes without a decay rate
Configs ==
    {c \in [learning_rate : LearningRates, momentum : Momenta,
            nesterov : BOOLEAN, decay : Decays] :
        c.learning_rate.kind = "const" \/ c.decay = Zero}

Unbuilt ==
    [state |-> "unbuilt", learning_rate |-> ConstantLr(Zero), momentum |-> Zero,
     nesterov |-> FALSE, decay |-> Zero, iterations |-> 0]

\* the configuration error of the constructor
ValueError == [Unbuilt EXCEPT !.state = "ValueError"]

\* the mutant: only the upper end of the range is checked
MomentumAtMostOne(m) == ~RLess(One, m)

\* momentum must lie in [0, 1]
MomentumInRange(m) == ~RLess(m, Zero) /\ ~RLess(One, m)

\* SGD.__init__: validation, then a new instance with iterations = 0
SGD(c) ==
    IF ~MomentumInRange(c.momentum) THEN ValueError
    ELSE IF c.momentum = Zero /\ c.nesterov THEN ValueError
    ELSE [state |-> "built", learning_rate |-> c.learning_rate,
          momentum |-> c.momentum, nesterov |-> c.nesterov,
          decay |-> c.decay, iterations |-> 0]

----------------------------------------------------------------------------
(* The update rule.                                                        *)

\* effective_lr(step): the schedule's value, or base_lr / (1 + decay * step)
DecayedLr(o, step) ==
    IF o.learning_rate.kind # "const" THEN ScheduleValue(o.learning_rate, step)
    ELSE IF RLess(Zero, o.decay)
         THEN RDiv(o.learning_rate.initial_learning_rate,
                   RAdd(One, RMul(o.decay, RInt(step))))
         ELSE o.learning_rate.initial_learning_rate

\* new_accumulator = momentum * accumulator - lr * gradient
NewAccum(o, lr, g, accum) == RSub(RMul(o.momentum, accum), RMul(lr, g))

\* the new value of one row of a variable
NewVar(o, lr, g, var, accum) ==
    IF o.momentum = Zero THEN RSub(var, RMul(lr, g))
    ELSE IF o.nesterov
         THEN RSub(RAdd(var, RMul(o.momentum, NewAccum(o, lr, g, accum))),
                   RMul(lr, g))
         ELSE RAdd(var, NewAccum(o, lr, g, accum))

\* the rows (numbered from 0) a gradient touches
IndexedRows(grad, n) ==
    IF grad.kind = "dense" THEN 0..(n - 1)
    ELSE {grad.indices[k] : k \in 1..Len(grad.indices)}

RECURSIVE SumAt(_, _, _)
\* the sum of the values of a sparse gradient whose index is row, from entry k on
SumAt(grad, row, k) ==
    IF k > Len(grad.indices) THEN Zero
    ELSE RAdd(IF grad.indices[k] = row THEN grad.values[k] ELSE Zero,
              SumAt(grad, row, k + 1))

\* the gradient of one row: duplicate indices are summed first
RowGrad(grad, row) ==
    IF grad.kind = "dense" THEN grad.values[row + 1] ELSE SumAt(grad, row, 1)

\* the mutant: slots are created whatever the momentum
CreateSlotsAlways(o, sl, vs, var_list) ==
    [v \in DOMAIN sl \cup var_list |->
        IF v \in DOMAIN sl THEN sl[v]
        ELSE [r \in 1..Len(vs[v]) |-> Zero]]

\* the momentum slots after add_slot for every variable of var_list: created
\* as zeros of the variable's shape, and only when the optimizer has momentum
CreateSlots(o, sl, vs, var_list) ==
    IF o.momentum = Zero THEN sl
    ELSE [v \in DOMAIN sl \cup var_list |->
            IF v \in DOMAIN sl THEN sl[v]
            ELSE [r \in 1..Len(vs[v]) |-> Zero]]

\* the update of one variable; st = [vars, slots, iterations, lrUsed]
UpdateVar(o, st, v, grad) ==
    LET lr == DecayedLr(o, st.iterations)
        n == Len(st.vars[v])
        rows == IndexedRows(grad, n)
        acc(r) == IF v \in DOMAIN st.slots THEN st.slots[v][r] ELSE Zero
        newVar == [r \in 1..n |->
                     IF (r - 1) \in rows
                     THEN NewVar(o, lr, RowGrad(grad, r - 1), st.vars[v][r], acc(r))
                     ELSE st.vars[v][r]]
        newSlot == [r \in 1..n |->
                      IF (r - 1) \in rows
                      THEN NewAccum(o, lr, RowGrad(grad, r - 1), acc(r))
                      ELSE acc(r)]
    IN  [vars |-> [st.vars EXCEPT ![v] = newVar],
         slots |-> IF v \in DOMAIN st.slots
                   THEN [st.slots EXCEPT ![v] = newSlot]
                   ELSE st.slots,
         iterations |-> st.iterations,
         lrUsed |-> [w \in DOMAIN st.lrUsed \cup {v} |->
                        IF w = v THEN lr ELSE st.lrUsed[w]]]

RECURSIVE ApplyEach(_, _, _, _)
\* the updates of the variables of gv, in the order of VarOrder, from position k
ApplyEach(o, st, gv, k) ==
    IF k > Len(VarOrder) THEN st
    ELSE ApplyEach(o,
                   IF VarOrder[k] \in DOMAIN gv
                   THEN UpdateVar(o, st, VarOrder[k], gv[VarOrder[k]])
                   ELSE st,
                   gv, k + 1)

NoLr == [v \in {} |-> Zero]

\* one training step: every variable is updated, then iterations grows by one
DistributedApply(o, st, gv) ==
    LET done == ApplyEach(o, [st EXCEPT !.lrUsed = NoLr], gv, 1)
    IN  [done EXCEPT !.iterations = @ + 1]

----------------------------------------------------------------------------
(* Configuration round trip.                                               *)

\* the mutant: a schedule is serialized as its initial learning rate
SerializeLrAsFloat(lr) ==
    [type |-> "float", value |-> lr.initial_learning_rate,
     class_name |-> "", initial_learning_rate |-> Zero,
     decay_steps |-> Zero, decay_rate |-> Zero]

\* serialization of the learning rate: a number, or the schedule's
\* {class_name, config} dictionary
SerializeLr(lr) ==
    IF lr.kind = "const"
    THEN [type |-> "float", value |-> lr.initial_learning_rate,
          class_name |-> "", initial_learning_rate |-> Zero,
          decay_steps |-> Zero, decay_rate |-> Zero]
    ELSE [type |-> "dict", value |-> Zero,
          class_name |-> lr.kind,
          initial_learning_rate |-> lr.initial_learning_rate,
          decay_steps |-> lr.decay_steps, decay_rate |-> lr.decay_rate]

\* the inverse: a dictionary is deserialized into its schedule class
DeserializeLr(x) ==
    IF x.type = "dict"
    THEN InverseTimeDecay(x.initial_learning_rate, x.decay_steps, x.decay_rate)
    ELSE ConstantLr(x.value)

\* SGD.get_config()
GetConfig(o) ==
    [name |-> "SGD", learning_rate |-> SerializeLr(o.learning_rate),
     decay |-> o.decay, momentum |-> o.momentum, nesterov |-> o.nesterov]

\* SGD.from_config(config) = SGD(**config)
FromConfig(config) ==
    SGD([learning_rate |-> DeserializeLr(config.learning_rate),
         momentum |-> config.momentum, nesterov |-> config.nesterov,
         decay |-> config.decay])

----------------------------------------------------------------------------
(* The optimizer's operations.                                             *)

\* the update ops a graph-mode test builds (mom_update1, mom_update2)
OpIds == {"update1", "update2"}

NotBuilt == [v \in {} |-> Zero]

NoSlots == [v \in {} |-> <<>>]

\* the gradients of the update ops the graph-mode tests build: dense for both
\* variables, one sparse row for each, and every row sparse next to a dense one
OpGradsAndVars ==
    {[v \in VarIds |-> DenseGrad(v)],
     [v \in VarIds |-> SparseGrad(v, IF v = "var0" THEN <<0>> ELSE <<1>>)],
     [v \in VarIds |-> IF v = "var0" THEN SparseGrad(v, <<0, 1>>) ELSE DenseGrad(v)]}

\* no constructor call yet
NoArgs ==
    [learning_rate |-> ConstantLr(Zero), momentum |-> Zero, nesterov |-> FALSE,
     decay |-> Zero]

InitOpt ==
    /\ mode \in {"graph", "eager"}
    /\ args = NoArgs
    /\ opt = Unbuilt
    /\ slots = NoSlots
    /\ vars = InitVars
    /\ ops = [op \in OpIds |-> NotBuilt]
    /\ hist = <<>>
    /\ lrUsed = NoLr
    /\ opt2 = Unbuilt

\* gradient_descent.SGD(learning_rate, momentum, nesterov, decay)
Construct(c) ==
    /\ opt.state = "unbuilt"
    /\ args' = c
    /\ opt' = SGD(c)
    /\ UNCHANGED <<mode, slots, vars, ops, hist, lrUsed, opt2>>
    /\ UNCHANGED <<vars_pad, vars_skip, vars_ts, vars_tbl, vars_reg>>

\* the state of the optimizer and the variables after one executed update
Executed(gv) ==
    DistributedApply(opt,
        [vars |-> vars, slots |-> CreateSlots(opt, slots, vars, DOMAIN gv),
         iterations |-> opt.iterations, lrUsed |-> lrUsed],
        gv)

Commit(st, gv) ==
    /\ vars' = st.vars
    /\ slots' = st.slots
    /\ opt' = [opt EXCEPT !.iterations = st.iterations]
    /\ lrUsed' = st.lrUsed
    /\ hist' = Append(hist, gv)

\* eager mode: apply_gradients creates the slots and runs the update at once
ApplyGradients(gv) ==
    /\ mode = "eager"
    /\ opt.state = "built"
    /\ opt.iterations < MaxSteps
    /\ \E st \in {Executed(gv)} : Commit(st, gv)
    /\ UNCHANGED <<mode, args, ops, opt2>>
    /\ UNCHANGED <<vars_pad, vars_skip, vars_ts, vars_tbl, vars_reg>>

\* graph mode: apply_gradients creates the slots and returns the update op
BuildUpdate(op, gv) ==
    /\ mode = "graph"
    /\ opt.state = "built"
    /\ ops[op] = NotBuilt
    /\ ops' = [ops EXCEPT ![op] = gv]
    /\ slots' = CreateSlots(opt, slots, vars, DOMAIN gv)
    /\ UNCHANGED <<mode, args, opt, vars, hist, lrUsed, opt2>>
    /\ UNCHANGED <<vars_pad, vars_skip, vars_ts, vars_tbl, vars_reg>>

\* graph mode: self.evaluate(op) runs the update once
RunUpdate(op) ==
    /\ mode = "graph"
    /\ opt.state = "built"
    /\ ops[op] # NotBuilt
    /\ opt.iterations < MaxSteps
    /\ \E st \in {Executed(ops[op])} : Commit(st, ops[op])
    /\ UNCHANGED <<mode, args, ops, opt2>>
    /\ UNCHANGED <<vars_pad, vars_skip, vars_ts, vars_tbl, vars_reg>>

\* opt2 = SGD.from_config(opt.get_config())
Rebuild ==
    /\ opt.state = "built"
    /\ opt2.state = "unbuilt"
    /\ opt2' = FromConfig(GetConfig(opt))
    /\ UNCHANGED <<mode, args, opt, slots, vars, ops, hist, lrUsed>>
    /\ UNCHANGED <<vars_pad, vars_skip, vars_ts, vars_tbl, vars_reg>>

----------------------------------------------------------------------------
(* keras.preprocessing.sequence.pad_sequences                              *)
(* Each element of a sequence is one integer (sample_shape = ()), and      *)
(* dtype is the default int32, so neither the sample-shape check nor the   *)
(* dtype/value check can fail.                                             *)

\* the number of sequences of a call, and the length of a sequence
MaxSeqs == 2
MaxSeqLen == 2

\* the elements of the sequences and the fill values
Tokens == {7, 9}
FillValues == {0, -1}

\* the arguments given for padding and truncating; "mid" is not understood
Modes == {"pre", "post", "mid"}

SeqsUpTo(S, n) == UNION {[1..k -> S] : k \in 0..n}

\* the calls: maxlen is None (hasMaxlen = FALSE) or an integer >= 0
PadInputs ==
    [sequences : SeqsUpTo(SeqsUpTo(Tokens, MaxSeqLen), MaxSeqs),
     hasMaxlen : {TRUE}, maxlen : 0..(MaxSeqLen + 1),
     padding : Modes, truncating : Modes, value : FillValues]
    \cup
    [sequences : SeqsUpTo(SeqsUpTo(Tokens, MaxSeqLen), MaxSeqs),
     hasMaxlen : {FALSE}, maxlen : {0},
     padding : Modes, truncating : Modes, value : FillValues]

Min(a, b) == IF a < b THEN a ELSE b
Max(a, b) == IF a > b THEN a ELSE b

\* Python's s[-n:] of a sequence: s[-0:] is s[0:], the whole sequence
SliceLast(s, n) ==
    IF n = 0 THEN s ELSE SubSeq(s, Max(Len(s) - n, 0) + 1, Len(s))

\* Python's s[:n]
SliceFirst(s, n) == SubSeq(s, 1, Min(n, Len(s)))

RECURSIVE MaxOf(_, _)
\* np.max of the lengths of the sequences from position k on
MaxOf(seqs, k) ==
    IF k = Len(seqs) THEN Len(seqs[k]) ELSE Max(Len(seqs[k]), MaxOf(seqs, k + 1))

PadError == [status |-> "ValueError", array |-> <<>>]

\* numpy's row[from:] = trunc or row[:n] = trunc on the cells lo..hi of a row:
\* a copy when the lengths agree, a broadcast of one element, else an error
AssignSlice(row, lo, hi, trunc) ==
    IF Len(trunc) = hi - lo + 1
    THEN [status |-> "ok",
          array |-> [c \in 1..Len(row) |->
                        IF c >= lo /\ c <= hi THEN trunc[c - lo + 1] ELSE row[c]]]
    ELSE IF Len(trunc) = 1
    THEN [status |-> "ok",
          array |-> [c \in 1..Len(row) |->
                        IF c >= lo /\ c <= hi THEN trunc[1] ELSE row[c]]]
    ELSE PadError

\* the body of the main loop for one sequence s and its row of x
PadRow(s, row, width, padding, truncating) ==
    IF Len(s) = 0 THEN [status |-> "ok", array |-> row]
    ELSE IF truncating \notin {"pre", "post"} THEN PadError
    ELSE LET trunc == IF truncating = "pre" THEN SliceLast(s, width)
                      ELSE SliceFirst(s, width)
         IN  IF padding = "post"
             THEN AssignSlice(row, 1, Min(Len(trunc), width), trunc)
             ELSE IF padding = "pre"
             THEN AssignSlice(row,
                              (IF Len(trunc) = 0 THEN 0
                               ELSE Max(width - Len(trunc), 0)) + 1,
                              width, trunc)
             ELSE PadError

RECURSIVE PadLoop(_, _, _, _)
\* the main loop from sequence idx on; x holds the rows filled so far
PadLoop(in, width, x, idx) ==
    IF idx > Len(in.sequences) THEN [status |-> "ok", array |-> x]
    ELSE LET r == PadRow(in.sequences[idx], x[idx], width, in.padding,
                         in.truncating)
         IN  IF r.status # "ok" THEN PadError
             ELSE PadLoop(in, width, [x EXCEPT ![idx] = r.array], idx + 1)

\* pad_sequences(sequences, maxlen, padding=, truncating=, value=)
pad_sequences(in) ==
    IF ~in.hasMaxlen /\ Len(in.sequences) = 0 THEN PadError
    ELSE LET width == IF in.hasMaxlen THEN in.maxlen ELSE MaxOf(in.sequences, 1)
             full == [i \in 1..Len(in.sequences) |-> [c \in 1..width |-> in.value]]
         IN  PadLoop(in, width, full, 1)

NotCalled == [status |-> "none", array |-> <<>>]

NoCall ==
    [sequences |-> <<>>, hasMaxlen |-> FALSE, maxlen |-> 0,
     padding |-> "pre", truncating |-> "pre", value |-> 0]

InitPad ==
    /\ padIn \in PadInputs
    /\ padOut = NotCalled

\* the call returns or raises
CallPad ==
    /\ padOut.status = "none"
    /\ padOut' = pad_sequences(padIn)
    /\ UNCHANGED padIn
    /\ UNCHANGED <<vars_opt, vars_skip, vars_ts, vars_tbl, vars_reg>>

----------------------------------------------------------------------------
(* keras.preprocessing.sequence.skipgrams                                  *)
(* The draws of the global random generator (random.random, the shuffle of *)
(* the center words, random.randint) are choices of the call. The pair     *)
(* random.seed(seed); random.shuffle(x) is a permutation fixed by the seed *)
(* and len(x); it stands here as the rotation of x by seed places.         *)

\* the length of the word sequence of a call
MaxSkipLen == 3

\* vocabulary_size: the word indices are 0..vocabulary_size - 1, 0 the non-word
VocabularySizes == {2, 3}

WindowSizes == {1, 2}

\* negative_samples
NegativeSamples == {Zero, Rat(1, 2), One}

\* sampling_table=None
NoTable == <<>>

\* a sampling table: entry wi + 1 is the probability of keeping the word wi
SamplingTable(size) == [w \in 1..size |-> IF w = 2 THEN Rat(1, 2) ELSE Zero]

\* seed=None, or a seed
NoSeed == [given |-> FALSE, value |-> 0]
Seeds == {NoSeed, [given |-> TRUE, value |-> 1]}

\* the values random.random() returns, in [0, 1)
RandomDraws == {Zero, Rat(3, 4)}

\* the outcomes of random.shuffle(words), as rotations
ShuffleDraws == 0..1

\* the values random.randint(0, 10e6) returns for the seed
SeedDraws == {0, 2}

\* the values random.randint(1, vocabulary_size - 1) returns for n negative
\* couples: two values a and b of the range, drawn in turn
PicksFor(n, vocabulary_size) ==
    {[i \in 1..n |-> IF i % 2 = 1 THEN a ELSE b] :
        a \in 1..(vocabulary_size - 1), b \in 1..(vocabulary_size - 1)}

AllSkipInputs ==
    UNION {[sequence : SeqsUpTo(0..(v - 1), MaxSkipLen),
            vocabulary_size : {v},
            window_size : WindowSizes,
            negative_samples : NegativeSamples,
            shuffle : BOOLEAN,
            categorical : BOOLEAN,
            sampling_table : {NoTable, SamplingTable(v)},
            seed : Seeds] : v \in VocabularySizes}

\* the calls; a seed is given only to the calls that shuffle
SkipInputs ==
    {in \in AllSkipInputs : in.shuffle \/ in.seed = NoSeed}

\* the list x rotated by k places: a permutation of x
Rot(x, k) == [i \in 1..Len(x) |-> x[((i - 1 + k) % Len(x)) + 1]]

\* the mutant: a context word 0 is not skipped
WindowPairsKeepZero(sequence, i, window_size) ==
    LET window_start == Max(1, i - window_size)
        window_end == Min(Len(sequence), i + window_size)
        js == SelectSeq([k \in 1..(window_end - window_start + 1) |->
                            window_start + k - 1],
                        LAMBDA j : j # i)
    IN  [k \in 1..Len(js) |-> <<sequence[i], sequence[js[k]]>>]

\* the mutant: the window ends at i + window_size, exclusive
WindowPairsShort(sequence, i, window_size) ==
    LET window_start == Max(1, i - window_size)
        window_end == Min(Len(sequence), i + window_size - 1)
        js == SelectSeq([k \in 1..(window_end - window_start + 1) |->
                            window_start + k - 1],
                        LAMBDA j : j # i /\ sequence[j] # 0)
    IN  [k \in 1..Len(js) |-> <<sequence[i], sequence[js[k]]>>]

\* the couples of the center position i: the inner loop over the window
WindowPairs(sequence, i, window_size) ==
    LET window_start == Max(1, i - window_size)
        window_end == Min(Len(sequence), i + window_size)
        js == SelectSeq([k \in 1..(window_end - window_start + 1) |->
                            window_start + k - 1],
                        LAMBDA j : j # i /\ sequence[j] # 0)
    IN  [k \in 1..Len(js) |-> <<sequence[i], sequence[js[k]]>>]

RECURSIVE Positives(_, _, _)
\* the couples the outer loop appends from the center position i on;
\* draws[i] is the value of random.random() at position i
Positives(in, draws, i) ==
    IF i > Len(in.sequence) THEN <<>>
    ELSE LET wi == in.sequence[i]
             skipped == \/ wi = 0
                        \/ /\ in.sampling_table # NoTable
                           /\ RLess(in.sampling_table[wi + 1], draws[i])
         IN  (IF skipped THEN <<>>
              ELSE WindowPairs(in.sequence, i, in.window_size))
             \o Positives(in, draws, i + 1)

\* int(x) of a real x >= 0
IntOf(x) == x[1] \div x[2]

\* the mutant: the number of negative samples is rounded up
NumNegativeRoundedUp(in, draws) ==
    IF RLess(Zero, in.negative_samples)
    THEN LET x == RMul(RInt(Len(Positives(in, draws, 1))), in.negative_samples)
         IN  (x[1] + x[2] - 1) \div x[2]
    ELSE 0

\* num_negative_samples, 0 when the negative sampling is not entered
NumNegative(in, draws) ==
    IF RLess(Zero, in.negative_samples)
    THEN IntOf(RMul(RInt(Len(Positives(in, draws, 1))), in.negative_samples))
    ELSE 0

PositiveLabel(categorical) == IF categorical THEN <<0, 1>> ELSE 1
NegativeLabel(categorical) == IF categorical THEN <<1, 0>> ELSE 0

\* the draws of random.random(), one for each position of the sequence
DrawsFor(in) ==
    IF in.sampling_table = NoTable
    THEN {[i \in 1..Len(in.sequence) |-> Zero]}
    ELSE [1..Len(in.sequence) -> RandomDraws]

\* the couples and labels before the final shuffle, given the draws of
\* random.random() (draws), the rotation random.shuffle(words) makes (k) and
\* the values of random.randint(1, vocabulary_size - 1) (picks)
Unshuffled(in, draws, k, picks) ==
    LET positives == Positives(in, draws, 1)
        num_negative_samples == NumNegative(in, draws)
        words == Rot([c \in 1..Len(positives) |-> positives[c][1]], k)
    IN  [couples |-> positives \o
                     [i \in 1..num_negative_samples |->
                         <<words[((i - 1) % Len(words)) + 1], picks[i]>>],
         labels |-> [c \in 1..Len(positives) |-> PositiveLabel(in.categorical)] \o
                    [i \in 1..num_negative_samples |->
                        NegativeLabel(in.categorical)]]

\* random.seed(seed); random.shuffle(x): a permutation fixed by seed and len(x)
SeededShuffle(seed, x) == Rot(x, seed)

\* the mutant: the generator is not seeded again before the labels are
\* shuffled, so they get the permutation that follows that of the couples
ShuffleLabelsUnseeded(seed, labels) == Rot(labels, seed + 1)

\* random.seed(seed); random.shuffle(labels)
ShuffleLabels(seed, labels) == SeededShuffle(seed, labels)

\* skipgrams(sequence, vocabulary_size, window_size, negative_samples,
\* shuffle, categorical, sampling_table, seed), given the draws of the global
\* generator that Unshuffled takes and the value of random.randint(0, 10e6)
\* (seedDraw)
skipgrams(in, draws, k, picks, seedDraw) ==
    LET pre == Unshuffled(in, draws, k, picks)
        seed == IF in.seed.given THEN in.seed.value ELSE seedDraw
    IN  IF in.shuffle
        THEN [status |-> "ok", couples |-> SeededShuffle(seed, pre.couples),
              labels |-> ShuffleLabels(seed, pre.labels)]
        ELSE [status |-> "ok", couples |-> pre.couples, labels |-> pre.labels]

NotReturned == [status |-> "none", couples |-> <<>>, labels |-> <<>>]

NoPairs == [couples |-> <<>>, labels |-> <<>>]

NoSkipCall ==
    [sequence |-> <<>>, vocabulary_size |-> 2, window_size |-> 1,
     negative_samples |-> Zero, shuffle |-> FALSE, categorical |-> FALSE,
     sampling_table |-> NoTable, seed |-> NoSeed]

IdleSkip ==
    /\ skIn = NoSkipCall
    /\ skOut = NotReturned
    /\ skPre = NoPairs
    /\ skOut2 = NotReturned

InitSkip ==
    /\ skIn \in SkipInputs
    /\ skOut = NotReturned
    /\ skPre = NoPairs
    /\ skOut2 = NotReturned

\* the call returns
CallSkipgrams ==
    /\ skOut.status = "none"
    /\ \E draws \in DrawsFor(skIn), k \in ShuffleDraws, seedDraw \in SeedDraws :
          \E picks \in PicksFor(NumNegative(skIn, draws), skIn.vocabulary_size) :
              /\ skOut' = skipgrams(skIn, draws, k, picks, seedDraw)
              /\ skPre' = Unshuffled(skIn, draws, k, picks)
    /\ UNCHANGED <<skIn, skOut2>>
    /\ UNCHANGED <<vars_opt, vars_pad, vars_ts, vars_tbl, vars_reg>>

\* a second call with the same arguments and a seed returns; the global
\* generator is in any state, so its draws are chosen afresh
CallSkipgramsAgain ==
    /\ skOut.status = "ok"
    /\ skOut2.status = "none"
    /\ skIn.seed.given
    /\ \E draws \in DrawsFor(skIn), k \in ShuffleDraws, seedDraw \in SeedDraws :
          \E picks \in PicksFor(NumNegative(skIn, draws), skIn.vocabulary_size) :
              skOut2' = skipgrams(skIn, draws, k, picks, seedDraw)
    /\ UNCHANGED <<skIn, skOut, skPre>>
    /\ UNCHANGED <<vars_opt, vars_pad, vars_ts, vars_tbl, vars_reg>>

----------------------------------------------------------------------------
(* keras.preprocessing.sequence.TimeseriesGenerator                        *)
(* The data points are data[i] = i and the targets targets[i] = 100 + i,   *)
(* i counted from 0 as in Python, so a value names the timestep it comes   *)
(* from. The arguments are within their documented ranges: length >= 0,    *)
(* sampling_rate, stride and batch_size >= 1, start_index >= 0, end_index  *)
(* None or the index of a data point, and a batch index is in 0..len(gen). *)

\* the number of data points
MaxDataLen == 5

Lengths == 0..2
SamplingRates == {1, 2}
Strides == {1, 2}
StartIndices == {0, 1}
BatchSizes == {1, 2}

\* data and targets of n timesteps
DataOf(n) == [i \in 1..n |-> i - 1]
TargetsOf(n) == [i \in 1..n |-> 100 + i - 1]

\* end_index=None
NoEndIndex == [given |-> FALSE, value |-> 0]

TsInputs ==
    UNION {[data : {DataOf(n)},
            targets : {TargetsOf(n), TargetsOf(n + 1)},
            length : Lengths,
            sampling_rate : SamplingRates,
            stride : Strides,
            start_index : StartIndices,
            end_index : {NoEndIndex} \cup
                        {[given |-> TRUE, value |-> e] : e \in 0..(n - 1)},
            shuffle : BOOLEAN,
            reverse : BOOLEAN,
            batch_size : BatchSizes] : n \in 0..MaxDataLen}

NoTsCall ==
    [data |-> <<>>, targets |-> <<>>, length |-> 0, sampling_rate |-> 1,
     stride |-> 1, start_index |-> 0, end_index |-> NoEndIndex,
     shuffle |-> FALSE, reverse |-> FALSE, batch_size |-> 1]

NoGen == [state |-> "none"]
NoResult == [op |-> "none"]

IdleTs == tsIn = NoTsCall /\ gen = NoGen /\ tsOut = NoResult

\* the mutant: the first end-point has to come before end_index
TimeseriesGeneratorStrict(a) ==
    IF Len(a.data) # Len(a.targets) THEN [state |-> "ValueError"]
    ELSE LET end_index == IF a.end_index.given THEN a.end_index.value
                          ELSE Len(a.data) - 1
         IN  IF a.start_index + a.length >= end_index
             THEN [state |-> "ValueError"]
             ELSE [state |-> "built",
                   data |-> a.data,
                   targets |-> a.targets,
                   length |-> a.length,
                   sampling_rate |-> a.sampling_rate,
                   stride |-> a.stride,
                   start_index |-> a.start_index + a.length,
                   end_index |-> end_index,
                   shuffle |-> a.shuffle,
                   reverse |-> a.reverse,
                   batch_size |-> a.batch_size]

\* TimeseriesGenerator.__init__: the object, or the ValueError it raises
TimeseriesGenerator(a) ==
    IF Len(a.data) # Len(a.targets) THEN [state |-> "ValueError"]
    ELSE LET end_index == IF a.end_index.given THEN a.end_index.value
                          ELSE Len(a.data) - 1
         IN  IF a.start_index + a.length > end_index
             THEN [state |-> "ValueError"]
             ELSE [state |-> "built",
                   data |-> a.data,
                   targets |-> a.targets,
                   length |-> a.length,
                   sampling_rate |-> a.sampling_rate,
                   stride |-> a.stride,
                   start_index |-> a.start_index + a.length,
                   end_index |-> end_index,
                   shuffle |-> a.shuffle,
                   reverse |-> a.reverse,
                   batch_size |-> a.batch_size]

\* the mutant: one batch too many when the end-points fill the batches
LenPlusOne(g) ==
    (g.end_index - g.start_index + g.batch_size * g.stride) \div
        (g.batch_size * g.stride) +
    (IF (g.end_index - g.start_index + 1) % (g.batch_size * g.stride) = 0
     THEN 1 ELSE 0)

\* TimeseriesGenerator.__len__
TsLen(g) ==
    (g.end_index - g.start_index + g.batch_size * g.stride) \div
        (g.batch_size * g.stride)

\* np.arange(lo, hi, step), step >= 1
Arange(lo, hi, step) ==
    IF hi <= lo THEN <<>>
    ELSE [k \in 1..((hi - lo + step - 1) \div step) |-> lo + (k - 1) * step]

\* Python's x[a:b:step] for 0 <= a and step >= 1, positions counted from 0
Slice(x, a, b, step) ==
    LET stop == Min(b, Len(x))
    IN  IF stop <= a THEN <<>>
        ELSE [k \in 1..((stop - a + step - 1) \div step) |->
                 x[a + (k - 1) * step + 1]]

\* x[::-1]
Reversed(x) == [k \in 1..Len(x) |-> x[Len(x) - k + 1]]

\* the rows (end-points) of the batch index when the generator does not
\* shuffle
RowsOf(g, index) ==
    LET i == g.start_index + g.batch_size * g.stride * index
    IN  Arange(i, Min(i + g.batch_size * g.stride, g.end_index + 1), g.stride)

\* the mutant: the window of a sample ends at its row, inclusive
SampleOfThroughRow(g, row) ==
    Slice(g.data, row - g.length + 1, row + 1, g.sampling_rate)

\* the mutant: the window starts one timestep after row - length
SampleOfLateStart(g, row) ==
    Slice(g.data, row - g.length + 1, row, g.sampling_rate)

\* the sample of the end-point row
SampleOf(g, row) == Slice(g.data, row - g.length, row, g.sampling_rate)

\* the mutant: reverse is ignored
FlipNothing(g, samples) == [status |-> "ok", samples |-> samples]

\* the return of __getitem__: samples[:, ::-1, ...] when reverse is set; the
\* array of no sample has one axis only and cannot be indexed on a second
FlipTime(g, samples) ==
    IF ~g.reverse THEN [status |-> "ok", samples |-> samples]
    ELSE IF Len(samples) = 0 THEN [status |-> "IndexError", samples |-> <<>>]
    ELSE [status |-> "ok",
          samples |-> [k \in 1..Len(samples) |-> Reversed(samples[k])]]

\* TimeseriesGenerator.__getitem__ for the rows chosen
GetItem(g, index, rows) ==
    LET samples == [k \in 1..Len(rows) |-> SampleOf(g, rows[k])]
        targets == [k \in 1..Len(rows) |-> g.targets[rows[k] + 1]]
        flipped == FlipTime(g, samples)
    IN  IF flipped.status = "ok"
        THEN [op |-> "getitem", index |-> index, status |-> "ok",
              samples |-> flipped.samples, targets |-> targets]
        ELSE [op |-> "getitem", index |-> index, status |-> flipped.status,
              samples |-> <<>>, targets |-> <<>>]

\* the rows of a batch: drawn by np.random.randint when shuffling
RowChoices(g, index) ==
    IF g.shuffle
    THEN [1..g.batch_size -> g.start_index..g.end_index]
    ELSE {RowsOf(g, index)}

RECURSIVE Digits(_)
\* str(n) for an integer n >= 0, as ASCII codes
Digits(n) == IF n < 10 THEN <<48 + n>> ELSE Digits(n \div 10) \o <<48 + (n % 10)>>

RECURSIVE JoinItems(_, _)
\* the items of x from position k on, separated by ', '
JoinItems(x, k) ==
    IF k > Len(x) THEN <<>>
    ELSE IF k = Len(x) THEN Digits(x[k])
    ELSE Digits(x[k]) \o <<44, 32>> \o JoinItems(x, k + 1)

\* json.dumps of a list of integers: '[0, 1, 2]'
json_dumps(x) == <<91>> \o JoinItems(x, 1) \o <<93>>

\* TimeseriesGenerator.get_config
get_config(g) ==
    [data |-> json_dumps(g.data),
     targets |-> json_dumps(g.targets),
     length |-> g.length,
     sampling_rate |-> g.sampling_rate,
     stride |-> g.stride,
     start_index |-> g.start_index,
     end_index |-> g.end_index,
     shuffle |-> g.shuffle,
     reverse |-> g.reverse,
     batch_size |-> g.batch_size]

InitTs ==
    /\ tsIn \in TsInputs
    /\ gen = NoGen
    /\ tsOut = NoResult

\* gen = TimeseriesGenerator(data, targets, length, ...)
TsConstruct ==
    /\ gen.state = "none"
    /\ gen' = TimeseriesGenerator(tsIn)
    /\ UNCHANGED <<tsIn, tsOut>>
    /\ UNCHANGED <<vars_opt, vars_pad, vars_skip, vars_tbl, vars_reg>>

\* len(gen)
TsCallLen ==
    /\ gen.state = "built"
    /\ tsOut' = [op |-> "len", value |-> TsLen(gen)]
    /\ UNCHANGED <<tsIn, gen>>
    /\ UNCHANGED <<vars_opt, vars_pad, vars_skip, vars_tbl, vars_reg>>

\* gen[index]
TsCallGetItem(index) ==
    /\ gen.state = "built"
    /\ index \in 0..TsLen(gen)
    /\ \E rows \in RowChoices(gen, index) : tsOut' = GetItem(gen, index, rows)
    /\ UNCHANGED <<tsIn, gen>>
    /\ UNCHANGED <<vars_opt, vars_pad, vars_skip, vars_tbl, vars_reg>>

\* gen.get_config()
TsCallGetConfig ==
    /\ gen.state = "built"
    /\ tsOut' = [op |-> "get_config", config |-> get_config(gen)]
    /\ UNCHANGED <<tsIn, gen>>
    /\ UNCHANGED <<vars_opt, vars_pad, vars_skip, vars_tbl, vars_reg>>

----------------------------------------------------------------------------
(* make_sampling_table(size, sampling_factor)                              *)
(* The floating-point values are carried in units of 1/Scale. np.log is    *)
(* the table Ln of the natural logarithms of the ranks; the square root is *)
(* the integer square root of the scaled value. All products stay below    *)
(* 2^31 for ranks up to 7 and factors up to 1.                             *)

MaxTableSize == 7

Scale == 10000

\* np.log(rank), in units of 1/Scale, for rank = 1..9
Ln == <<0, 6931, 10986, 13863, 16094, 17918, 19459, 20794, 21972>>

\* gamma = 0.577
gamma == 5770

TableSizes == 0..MaxTableSize

\* sampling factors in (0, 1]
SamplingFactors ==
    {Rat(1, 100), Rat(1, 50), Rat(1, 20), Rat(1, 10), Rat(1, 5), Rat(1, 4),
     Rat(1, 2), Rat(3, 4), Rat(9, 10), One}

TableInputs == [size : TableSizes, sampling_factor : SamplingFactors]

\* rank = np.arange(size); rank[0] = 1, for size >= 1: entry i (from 0) is
\* at position i + 1
RankOf(size) == [p \in 1..size |-> IF p = 1 THEN 1 ELSE p - 1]

\* the mutant: the reciprocal, the frequency itself
InvFqAsFrequency(rank) ==
    (Scale * Scale) \div (rank * (Ln[rank] + gamma) + Scale \div 2 - Scale \div (12 * rank))

\* rank * (np.log(rank) + gamma) + 0.5 - 1. / (12. * rank)
InvFq(rank) == rank * (Ln[rank] + gamma) + Scale \div 2 - Scale \div (12 * rank)

RECURSIVE SqrtBetween(_, _, _)
\* the largest k in lo..hi with k * k <= n
SqrtBetween(n, lo, hi) ==
    IF lo = hi THEN lo
    ELSE LET mid == (lo + hi + 1) \div 2
         IN  IF mid * mid <= n THEN SqrtBetween(n, mid, hi)
             ELSE SqrtBetween(n, lo, mid - 1)

\* np.sqrt(f), f and the result in units of 1/Scale
Sqrt(f) == SqrtBetween(f * Scale, 0, 46340)

\* np.minimum(1., x)
Minimum1(x) == IF x > Scale THEN Scale ELSE x

TableIndexError == [status |-> "IndexError", table |-> <<>>]

\* make_sampling_table: rank[0] = 1 raises IndexError on an empty array
make_sampling_table(size, sampling_factor) ==
    IF size = 0 THEN TableIndexError
    ELSE LET rank == RankOf(size)
             f == [p \in 1..size |->
                     (sampling_factor[1] * InvFq(rank[p])) \div sampling_factor[2]]
         IN  [status |-> "ok",
              table |-> [p \in 1..size |-> Minimum1((f[p] * Scale) \div Sqrt(f[p]))]]

NoTableCall == [size |-> 0, sampling_factor |-> One]

NoTableYet == [status |-> "none", table |-> <<>>]

IdleTbl == tblIn = NoTableCall /\ tblOut = NoTableYet

InitTbl == tblIn \in TableInputs /\ tblOut = NoTableYet

\* make_sampling_table(size, sampling_factor) returns or raises
CallMakeTable ==
    /\ tblOut.status = "none"
    /\ tblOut' = make_sampling_table(tblIn.size, tblIn.sampling_factor)
    /\ UNCHANGED tblIn
    /\ UNCHANGED <<vars_opt, vars_pad, vars_skip, vars_ts, vars_reg>>

----------------------------------------------------------------------------
(* keras.optimizers.get and keras.optimizers.deserialize                   *)
(* A string is the sequence of its ASCII codes, so that str.lower() is a   *)
(* computation. A class is named by a TLA+ string. An object is a record   *)
(* [kind, id, value]: its type, its identity (0 for an object the call     *)
(* makes) and its content. deserialize_keras_object                        *)
(* (keras/utils/generic_utils.py) is not part of the excerpt: it stands as *)
(* the lookup of config['class_name'] in module_objects followed by        *)
(* cls.from_config(config['config']), a ValueError when the name is not    *)
(* found.                                                                  *)

\* the number of leading letters of a name that the casings vary freely
MaxCased == 2

\* the built-in table of deserialize: pairs <<name, class>>
all_classes ==
    { \* 'adadelta'
     <<<<97, 100, 97, 100, 101, 108, 116, 97>>,
       "adadelta_v2.Adadelta">>,
     \* 'adagrad'
     <<<<97, 100, 97, 103, 114, 97, 100>>,
       "adagrad_v2.Adagrad">>,
     \* 'adam'
     <<<<97, 100, 97, 109>>,
       "adam_v2.Adam">>,
     \* 'adamax'
     <<<<97, 100, 97, 109, 97, 120>>,
       "adamax_v2.Adamax">>,
     \* 'experimentaladadelta'
     <<<<101, 120, 112, 101, 114, 105, 109, 101, 110, 116, 97, 108, 97, 100, 97, 100, 101, 108, 116, 97>>,
       "adadelta_experimental.Adadelta">>,
     \* 'experimentaladagrad'
     <<<<101, 120, 112, 101, 114, 105, 109, 101, 110, 116, 97, 108, 97, 100, 97, 103, 114, 97, 100>>,
       "adagrad_experimental.Adagrad">>,
     \* 'experimentaladam'
     <<<<101, 120, 112, 101, 114, 105, 109, 101, 110, 116, 97, 108, 97, 100, 97, 109>>,
       "adam_experimental.Adam">>,
     \* 'experimentalsgd'
     <<<<101, 120, 112, 101, 114, 105, 109, 101, 110, 116, 97, 108, 115, 103, 100>>,
       "sgd_experimental.SGD">>,
     \* 'nadam'
     <<<<110, 97, 100, 97, 109>>,
       "nadam_v2.Nadam">>,
     \* 'rmsprop'
     <<<<114, 109, 115, 112, 114, 111, 112>>,
       "rmsprop_v2.RMSprop">>,
     \* 'sgd'
     <<<<115, 103, 100>>,
       "gradient_descent_v2.SGD">>,
     \* 'ftrl'
     <<<<102, 116, 114, 108>>,
       "ftrl.Ftrl">>,
     \* 'lossscaleoptimizer'
     <<<<108, 111, 115, 115, 115, 99, 97, 108, 101, 111, 112, 116, 105, 109, 105, 122, 101, 114>>,
       "loss_scale_optimizer.LossScaleOptimizer">>,
     \* 'lossscaleoptimizerv3'
     <<<<108, 111, 115, 115, 115, 99, 97, 108, 101, 111, 112, 116, 105, 109, 105, 122, 101, 114, 118, 51>>,
       "loss_scale_optimizer.LossScaleOptimizerV3">>,
     \* 'lossscaleoptimizerv1'
     <<<<108, 111, 115, 115, 115, 99, 97, 108, 101, 111, 112, 116, 105, 109, 105, 122, 101, 114, 118, 49>>,
       "loss_scale_optimizer.LossScaleOptimizer">>}

\* 'foo' and 'Foo', not in the table
UnknownNames == {<<102, 111, 111>>, <<70, 111, 111>>}

\* name in all_classes
Registered(name) == \E e \in all_classes : e[1] = name

\* all_classes[name]
ClassAt(name) == (CHOOSE e \in all_classes : e[1] = name)[2]

\* the mutant: the name is left as it is written
lowerNothing(s) == s

\* str.lower() on ASCII
lower(s) == [i \in 1..Len(s) |-> IF s[i] \in 65..90 THEN s[i] + 32 ELSE s[i]]

\* s with the letters at the positions of P in upper case
UpperAt(s, P) ==
    [i \in 1..Len(s) |-> IF i \in P /\ s[i] \in 97..122 THEN s[i] - 32 ELSE s[i]]

\* the casings of a name: any casing of its first MaxCased letters, all
\* upper case, and capitals at the positions of 'LossScaleOptimizerV1'
Casings(name) ==
    {UpperAt(name, P) :
        P \in SUBSET (1..MaxCased) \cup {1..Len(name)} \cup {{1, 5, 10, 19}}}

ClassNames == UNION {Casings(e[1]) : e \in all_classes} \cup UnknownNames

\* {} and {'learning_rate': 0.1}
EmptyDict == <<>>
InnerConfigs == {EmptyDict, [learning_rate |-> Rat(1, 10)]}

\* the configuration mappings {'class_name': ..., 'config': ...}
ConfigDicts == [class_name : ClassNames, config : InnerConfigs]

\* the types get returns unchanged
OptimizerTypes ==
    {"optimizer_v1.Optimizer", "base_optimizer_v2.OptimizerV2",
     "optimizer_experimental.Optimizer"}

NoDict == [class_name |-> <<>>, config |-> EmptyDict]

\* the identifiers given to get: optimizer instances, a legacy TF optimizer,
\* the caller's dict, strings, and objects of other types
Identifiers ==
    [kind : OptimizerTypes \cup {"tf.compat.v1.train.Optimizer", "dict", "int",
                                 "NoneType"},
     id : {1}, value : {<<>>}]
    \cup [kind : {"str"}, id : {1}, value : ClassNames]

\* the calls: get(identifier), and deserialize(config) on the caller's dict;
\* before is what the caller's dict holds when the call is made
RegInputs ==
    {c \in [function : {"get", "deserialize"}, identifier : Identifiers,
            before : ConfigDicts \cup {NoDict}] :
        /\ c.function = "deserialize" => c.identifier.kind = "dict"
        /\ c.identifier.kind = "dict" <=> c.before # NoDict}

RegValueError == [status |-> "ValueError", object |-> <<>>]

Returned(object) == [status |-> "returned", object |-> object]

\* deserialize_keras_object(config, module_objects=...): the instance
\* cls.from_config(config['config']) of the class found under class_name
deserialize_keras_object(config, module_objects) ==
    IF \E e \in module_objects : e[1] = config.class_name
    THEN Returned([kind |-> (CHOOSE e \in module_objects :
                                e[1] = config.class_name)[2],
                   id |-> 0, value |-> config.config])
    ELSE RegValueError

\* deserialize(config): what the dict holds afterwards, and the outcome
deserialize(config) ==
    LET lowered == IF Registered(lower(config.class_name))
                   THEN [config EXCEPT !.class_name = lower(config.class_name)]
                   ELSE config
    IN  [config |-> lowered,
         out |-> deserialize_keras_object(lowered, all_classes)]

\* the mutant: a string is not interpreted
getWithoutStrings(identifier, dict) ==
    IF identifier.kind \in OptimizerTypes
    THEN [config |-> dict, out |-> Returned(identifier)]
    ELSE IF identifier.kind = "tf.compat.v1.train.Optimizer"
    THEN [config |-> dict,
          out |-> Returned([kind |-> "TFOptimizer", id |-> 0, value |-> identifier])]
    ELSE IF identifier.kind = "dict"
    THEN deserialize(dict)
    ELSE [config |-> dict, out |-> RegValueError]

\* get(identifier); dict is what the caller's dict holds when identifier is
\* that dict
get(identifier, dict) ==
    IF identifier.kind \in OptimizerTypes
    THEN [config |-> dict, out |-> Returned(identifier)]
    ELSE IF identifier.kind = "tf.compat.v1.train.Optimizer"
    THEN [config |-> dict,
          out |-> Returned([kind |-> "TFOptimizer", id |-> 0, value |-> identifier])]
    ELSE IF identifier.kind = "dict"
    THEN deserialize(dict)
    ELSE IF identifier.kind = "str"
    THEN [config |-> dict,
          out |-> deserialize([class_name |-> identifier.value,
                               config |-> EmptyDict]).out]
    ELSE [config |-> dict, out |-> RegValueError]

NoRegCall ==
    [function |-> "get", identifier |-> [kind |-> "NoneType", id |-> 1, value |-> <<>>],
     before |-> NoDict]

NotResolved == [status |-> "none", object |-> <<>>]

IdleReg == regIn = NoRegCall /\ regCfg = NoDict /\ regOut = NotResolved

InitReg ==
    /\ regIn \in RegInputs
    /\ regCfg = regIn.before
    /\ regOut = NotResolved

\* optimizers.get(identifier) returns or raises
CallGet ==
    /\ regOut.status = "none"
    /\ regIn.function = "get"
    /\ \E r \in {get(regIn.identifier, regCfg)} :
          regCfg' = r.config /\ regOut' = r.out
    /\ UNCHANGED regIn
    /\ UNCHANGED <<vars_opt, vars_pad, vars_skip, vars_ts, vars_tbl>>

\* optimizers.deserialize(config) returns or raises
CallDeserialize ==
    /\ regOut.status = "none"
    /\ regIn.function = "deserialize"
    /\ \E r \in {deserialize(regCfg)} :
          regCfg' = r.config /\ regOut' = r.out
    /\ UNCHANGED regIn
    /\ UNCHANGED <<vars_opt, vars_pad, vars_skip, vars_ts, vars_tbl>>

----------------------------------------------------------------------------
(* The specifications.                                                     *)

\* the optimizer, with no pad_sequences call
IdlePad == padIn = NoCall /\ padOut = NotCalled

Init == InitOpt /\ IdlePad /\ IdleSkip /\ IdleTs /\ IdleTbl /\ IdleReg

Next ==
    \/ \E c \in Configs : Construct(c)
    \/ \E gv \in GradsAndVars : ApplyGradients(gv)
    \/ \E op \in OpIds, gv \in OpGradsAndVars : BuildUpdate(op, gv)
    \/ \E op \in OpIds : RunUpdate(op)
    \/ Rebuild

Spec == Init /\ [][Next]_vars_all

\* one pad_sequences call, with no optimizer
IdleOpt ==
    /\ mode = "eager"
    /\ args = NoArgs
    /\ opt = Unbuilt
    /\ slots = NoSlots
    /\ vars = InitVars
    /\ ops = [op \in OpIds |-> NotBuilt]
    /\ hist = <<>>
    /\ lrUsed = NoLr
    /\ opt2 = Unbuilt

InitPadSpec == IdleOpt /\ InitPad /\ IdleSkip /\ IdleTs /\ IdleTbl /\ IdleReg

NextPad == CallPad

SpecPad == InitPadSpec /\ [][NextPad]_vars_all

\* one skipgrams call
InitSkipSpec == IdleOpt /\ IdlePad /\ InitSkip /\ IdleTs /\ IdleTbl /\ IdleReg

NextSkip == CallSkipgrams

SpecSkip == InitSkipSpec /\ [][NextSkip]_vars_all

\* two skipgrams calls with the same arguments
NextSkipTwice ==
    \/ CallSkipgrams
    \/ CallSkipgramsAgain

SpecSkipTwice == InitSkipSpec /\ [][NextSkipTwice]_vars_all

\* one TimeseriesGenerator and the calls on it
InitTsSpec == IdleOpt /\ IdlePad /\ IdleSkip /\ InitTs /\ IdleTbl /\ IdleReg

NextTs ==
    \/ TsConstruct
    \/ TsCallLen
    \/ \E index \in 0..(MaxDataLen + 1) : TsCallGetItem(index)
    \/ TsCallGetConfig

SpecTs == InitTsSpec /\ [][NextTs]_vars_all

\* one call of make_sampling_table
InitTblSpec == IdleOpt /\ IdlePad /\ IdleSkip /\ IdleTs /\ InitTbl /\ IdleReg

NextTbl == CallMakeTable

SpecTbl == InitTblSpec /\ [][NextTbl]_vars_all

\* one call of optimizers.get or optimizers.deserialize
InitRegSpec == IdleOpt /\ IdlePad /\ IdleSkip /\ IdleTs /\ IdleTbl /\ InitReg

NextReg ==
    \/ CallGet
    \/ CallDeserialize

SpecReg == InitRegSpec /\ [][NextReg]_vars_all

----------------------------------------------------------------------------
(* What the tests expect and what the claims state.                        *)

\* the learning rate of the update that follows n completed updates:
\* base_lr / (1 + d * n)
EffectiveLr(o, n) ==
    LET d == IF o.learning_rate.kind = "const" THEN o.decay
             ELSE RDiv(o.learning_rate.decay_rate, o.learning_rate.decay_steps)
    IN  RDiv(o.learning_rate.initial_learning_rate, RAdd(One, RMul(d, RInt(n))))

RECURSIVE SummedGrad(_, _, _)
\* the gradient of a row: the values of the first k entries that name the row,
\* summed (every row of a dense gradient has its own value)
SummedGrad(grad, row, k) ==
    IF grad.kind = "dense" THEN grad.values[row + 1]
    ELSE IF k = 0 THEN Zero
    ELSE IF grad.indices[k] = row
         THEN RAdd(SummedGrad(grad, row, k - 1), grad.values[k])
         ELSE SummedGrad(grad, row, k - 1)

\* the rows a gradient names
Touches(grad, row) ==
    grad.kind = "dense" \/ \E k \in 1..Len(grad.indices) : grad.indices[k] = row

\* every update executed so far that includes v names every row of v
EveryRow(v) ==
    \A k \in 1..Len(hist) :
        v \in DOMAIN hist[k] =>
            \A r \in 1..NumRows(v) : Touches(hist[k][v], r - 1)

\* every update executed so far that includes v has a dense gradient for it
DenseOnly(v) ==
    \A k \in 1..Len(hist) : v \in DOMAIN hist[k] => hist[k][v].kind = "dense"

\* v was in some executed update
Updated(v) == \E k \in 1..Len(hist) : v \in DOMAIN hist[k]

ZeroRows(v) == [r \in 1..NumRows(v) |-> Zero]

RECURSIVE ClassicalIter(_, _)
\* the classical momentum rule iterated over the first k updates, from a zero
\* accumulator: acc' = momentum * acc - lr * g, var' = var + acc'
ClassicalIter(v, k) ==
    IF k = 0 THEN [var |-> InitVars[v], accum |-> ZeroRows(v)]
    ELSE LET p == ClassicalIter(v, k - 1)
             lr == EffectiveLr(opt, k - 1)
             g(r) == SummedGrad(hist[k][v], r - 1, Len(hist[k][v].indices))
             acc == [r \in 1..NumRows(v) |->
                        RSub(RMul(opt.momentum, p.accum[r]), RMul(lr, g(r)))]
         IN  IF v \notin DOMAIN hist[k] THEN p
             ELSE [var |-> [r \in 1..NumRows(v) |-> RAdd(p.var[r], acc[r])],
                   accum |-> acc]

\* o was constructed as SGD(learning_rate=lr, momentum=m, nesterov=n, decay=d)
IsSGD(o, lr, m, n, d) ==
    /\ o.state = "built"
    /\ o.learning_rate = lr
    /\ o.momentum = m
    /\ o.nesterov = n
    /\ o.decay = d

\* MomentumOptimizerTest.testBasic: SGD(learning_rate=2.0, momentum=0.9) and
\* dense gradients for var0 and var1
TestBasicMomentum ==
    /\ IsSGD(opt, ConstantLr(RInt(2)), Rat(9, 10), FALSE, Zero)
    /\ Len(hist) \in 1..2
    /\ \A k \in 1..Len(hist) : hist[k] = [v \in VarIds |-> DenseGrad(v)]

\* the mutant: the expectation of step 2 without the momentum term
ExpectedVarNoMomentum(v, r, step) ==
    IF step = 1 THEN RSub(InitVars[v][r], RMul(GradValue(v), RInt(2)))
    ELSE RSub(RSub(InitVars[v][r], RMul(GradValue(v), RInt(2))),
              RMul(GradValue(v), RInt(2)))

\* testBasic's expected variables: after step 1, x - (g * 2.0); after step 2,
\* x - (g * 2.0) - ((0.9 * g + g) * 2.0)
ExpectedVarTestBasic(v, r, step) ==
    IF step = 1 THEN RSub(InitVars[v][r], RMul(GradValue(v), RInt(2)))
    ELSE RSub(RSub(InitVars[v][r], RMul(GradValue(v), RInt(2))),
              RMul(RAdd(RMul(Rat(9, 10), GradValue(v)), GradValue(v)), RInt(2)))

\* testBasic's expected slots: after step 1, -2.0 * g; after step 2,
\* 0.9 * (-2.0 * g) - 2.0 * g
ExpectedSlotTestBasic(v, step) ==
    IF step = 1 THEN RNeg(RMul(RInt(2), GradValue(v)))
    ELSE RSub(RMul(Rat(9, 10), RNeg(RMul(RInt(2), GradValue(v)))),
              RMul(RInt(2), GradValue(v)))

\* C1: with classical momentum (momentum > 0, no nesterov) and dense gradients
\* every update sets accumulator' = momentum * accumulator - lr * gradient and
\* variable' = variable + accumulator', from a zero accumulator; with lr = 2.0,
\* momentum = 0.9, gradient 0.1 and variable 1.0 the accumulator is -0.2 then
\* -0.38 and the variable 0.8 then 0.42, as testBasic expects.
C1_ClassicalMomentum ==
    /\ (opt.state = "built" /\ RLess(Zero, opt.momentum) /\ ~opt.nesterov) =>
          \A v \in VarIds :
              DenseOnly(v) =>
                  /\ vars[v] = ClassicalIter(v, Len(hist)).var
                  /\ v \in DOMAIN slots =>
                        slots[v] = ClassicalIter(v, Len(hist)).accum
                  /\ Updated(v) => v \in DOMAIN slots
    /\ TestBasicMomentum =>
          /\ \A v \in VarIds : \A r \in 1..NumRows(v) :
                /\ vars[v][r] = ExpectedVarTestBasic(v, r, Len(hist))
                /\ slots[v][r] = ExpectedSlotTestBasic(v, Len(hist))
          /\ Len(hist) = 1 =>
                slots["var0"][1] = Rat(-2, 10) /\ vars["var0"][1] = Rat(8, 10)
          /\ Len(hist) = 2 =>
                slots["var0"][1] = Rat(-38, 100) /\ vars["var0"][1] = Rat(42, 100)

\* the second step of testBasic has run
C1_Witness == TestBasicMomentum /\ Len(hist) = 2

\* the mutant: the lookahead term momentum * accum' is left out
update_nesterov_as_classical(var, accum, g, lr, momentum) ==
    LET a == RSub(RMul(accum, momentum), RMul(g, lr))
    IN  <<RAdd(var, a), a>>

\* MomentumOptimizerTest._update_nesterov_momentum_numpy:
\*   accum = accum * momentum - g * lr; var += accum * momentum - g * lr
update_nesterov_momentum_numpy(var, accum, g, lr, momentum) ==
    LET a == RSub(RMul(accum, momentum), RMul(g, lr))
    IN  <<RAdd(var, RSub(RMul(a, momentum), RMul(g, lr))), a>>

RECURSIVE NesterovIter(_, _)
\* the reference rule iterated over the first k updates, from a zero accumulator
NesterovIter(v, k) ==
    IF k = 0 THEN [var |-> InitVars[v], accum |-> ZeroRows(v)]
    ELSE LET p == NesterovIter(v, k - 1)
             lr == EffectiveLr(opt, k - 1)
             g(r) == SummedGrad(hist[k][v], r - 1, Len(hist[k][v].indices))
             n(r) == update_nesterov_momentum_numpy(p.var[r], p.accum[r], g(r),
                                                    lr, opt.momentum)
         IN  IF v \notin DOMAIN hist[k] THEN p
             ELSE [var |-> [r \in 1..NumRows(v) |-> n(r)[1]],
                   accum |-> [r \in 1..NumRows(v) |-> n(r)[2]]]

\* C2: with nesterov momentum every update sets accumulator' = momentum *
\* accumulator - lr * gradient and variable' = variable + momentum *
\* accumulator' - lr * gradient, for dense gradients and for sparse gradients
\* that index every row: after any number of updates the variable (and its
\* accumulator) is what iterating the tests' reference rule from a zero
\* accumulator gives.
C2_Nesterov ==
    (opt.state = "built" /\ opt.nesterov /\ RLess(Zero, opt.momentum)) =>
        \A v \in VarIds :
            EveryRow(v) =>
                /\ vars[v] = NesterovIter(v, Len(hist)).var
                /\ v \in DOMAIN slots => slots[v] = NesterovIter(v, Len(hist)).accum
                /\ Updated(v) => v \in DOMAIN slots

\* testSparseNesterovMomentum after two runs: var0 sparse on rows 0 and 1,
\* var1 dense
C2_Witness ==
    /\ opt.state = "built" /\ opt.nesterov
    /\ Len(hist) = 2
    /\ \A k \in 1..2 :
          hist[k] = [v \in VarIds |->
                        IF v = "var0" THEN SparseGrad(v, <<0, 1>>) ELSE DenseGrad(v)]

\* the mutant: the sparse step is expected to change every row
ExpectedVarSgdEveryRow(v, r, indexed) ==
    RSub(InitVars[v][r], RMul(RInt(3), GradValue(v)))

\* GradientDescentOptimizerTest.testBasic and testSparseBasic, SGD(3.0): one
\* step leaves x - 3.0 * g in every row a gradient names and x in the others
ExpectedVarSgd(v, r, indexed) ==
    IF indexed THEN RSub(InitVars[v][r], RMul(RInt(3), GradValue(v)))
    ELSE InitVars[v][r]

\* the gradients of testSparseBasic: row 0 of var0 and row 1 of var1
SparseBasicGrads ==
    [v \in VarIds |-> SparseGrad(v, IF v = "var0" THEN <<0>> ELSE <<1>>)]

DenseGrads == [v \in VarIds |-> DenseGrad(v)]

RECURSIVE SgdIter(_, _)
\* var' = var - lr * g on the rows the gradient names, iterated over the first
\* k updates
SgdIter(v, k) ==
    IF k = 0 THEN InitVars[v]
    ELSE LET p == SgdIter(v, k - 1)
             lr == EffectiveLr(opt, k - 1)
             g(r) == SummedGrad(hist[k][v], r - 1, Len(hist[k][v].indices))
         IN  IF v \notin DOMAIN hist[k] THEN p
             ELSE [r \in 1..NumRows(v) |->
                      IF Touches(hist[k][v], r - 1)
                      THEN RSub(p[r], RMul(lr, g(r)))
                      ELSE p[r]]

\* C3: without momentum an update sets variable' = variable - lr * gradient
\* for every variable passed to it, on every row of a dense gradient and on
\* the indexed rows of a sparse one, and no accumulator exists; after the
\* first update of SGD(3.0) the variables are what testBasic and
\* testSparseBasic expect.
C3_PlainSgd ==
    (opt.state = "built" /\ opt.momentum = Zero) =>
        /\ \A v \in VarIds : vars[v] = SgdIter(v, Len(hist))
        /\ slots = NoSlots
        /\ Len(hist) = 1 =>
              \A v \in DOMAIN hist[1] : \A r \in 1..NumRows(v) :
                  Touches(hist[1][v], r - 1) =>
                      vars[v][r] =
                          RSub(InitVars[v][r],
                               RMul(opt.learning_rate.initial_learning_rate,
                                    SummedGrad(hist[1][v], r - 1,
                                               Len(hist[1][v].indices))))
        /\ (IsSGD(opt, ConstantLr(RInt(3)), Zero, FALSE, Zero)
              /\ hist \in {<<DenseGrads>>, <<SparseBasicGrads>>}) =>
              \A v \in VarIds : \A r \in 1..NumRows(v) :
                  vars[v][r] = ExpectedVarSgd(v, r, Touches(hist[1][v], r - 1))

\* testSparseBasic after its step
C3_Witness ==
    /\ IsSGD(opt, ConstantLr(RInt(3)), Zero, FALSE, Zero)
    /\ hist = <<SparseBasicGrads>>
    /\ vars["var0"] = <<Rat(7, 10), RInt(2)>>

\* the mutant: the step counter grows with every variable, so var1 sees the
\* rate of one update later than var0, and the next step starts two later
ExpectedVarStepPerVariable(v, r, step, indexed) ==
    LET lr(n) == RDiv(RInt(3), RAdd(One, RMul(Rat(1, 2), RInt(n))))
        first == IF v = "var0" THEN 0 ELSE 1
    IN  IF ~indexed THEN InitVars[v][r]
        ELSE IF step = 1 THEN RSub(InitVars[v][r], RMul(lr(first), GradValue(v)))
        ELSE RSub(RSub(InitVars[v][r], RMul(lr(first), GradValue(v))),
                  RMul(lr(first + 2), GradValue(v)))

\* the mutant: the second step is expected at the undecayed rate 3.0
ExpectedVarNoDecay(v, r, step, indexed) ==
    IF ~indexed THEN InitVars[v][r]
    ELSE IF step = 1 THEN RSub(InitVars[v][r], RMul(RInt(3), GradValue(v)))
    ELSE RSub(RSub(InitVars[v][r], RMul(RInt(3), GradValue(v))),
              RMul(RInt(3), GradValue(v)))

\* _test_basic_sgd_with_learning_rate_decay and
\* testSparseBasicWithLearningRateDecay (learning rate 3.0, decay 0.5): an
\* indexed row holds x - 3.0 * g after step 1, x - 3.0 * g - 2.0 * g after step 2
ExpectedVarLrDecay(v, r, step, indexed) ==
    IF ~indexed THEN InitVars[v][r]
    ELSE IF step = 1 THEN RSub(InitVars[v][r], RMul(RInt(3), GradValue(v)))
    ELSE RSub(RSub(InitVars[v][r], RMul(RInt(3), GradValue(v))),
              RMul(RInt(2), GradValue(v)))

\* the tests of the decayed learning rate: the same gradients at every step
LrDecayTest(o) ==
    /\ \/ IsSGD(o, ConstantLr(RInt(3)), Zero, FALSE, Rat(1, 2))
       \/ IsSGD(o, InverseTimeDecay(RInt(3), One, Rat(1, 2)), Zero, FALSE, Zero)
    /\ Len(hist) \in 1..2
    /\ hist[1] \in {DenseGrads, SparseBasicGrads}
    /\ \A k \in 1..Len(hist) : hist[k] = hist[1]

\* C4: with a decay rate d > 0 the update that follows n completed updates
\* uses base_lr / (1 + d * n); base_lr = 3.0 and d = 0.5 give 3.0 for the
\* first update and 2.0 for the second, for dense and sparse gradients, as the
\* learning-rate-decay tests expect.
C4_DecayedLr ==
    /\ (opt.state = "built" /\ opt.learning_rate.kind = "const"
          /\ RLess(Zero, opt.decay) /\ Len(hist) > 0) =>
          /\ \A v \in DOMAIN lrUsed :
                lrUsed[v] =
                    RDiv(opt.learning_rate.initial_learning_rate,
                         RAdd(One, RMul(opt.decay, RInt(opt.iterations - 1))))
          /\ (opt.learning_rate.initial_learning_rate = RInt(3)
                /\ opt.decay = Rat(1, 2)) =>
                \A v \in DOMAIN lrUsed :
                    /\ opt.iterations = 1 => lrUsed[v] = RInt(3)
                    /\ opt.iterations = 2 => lrUsed[v] = RInt(2)
    /\ LrDecayTest(opt) =>
          \A v \in VarIds : \A r \in 1..NumRows(v) :
              vars[v][r] =
                  ExpectedVarLrDecay(v, r, Len(hist), Touches(hist[1][v], r - 1))

\* the second step of testSparseBasicWithLearningRateDecay has run
C4_Witness ==
    /\ IsSGD(opt, ConstantLr(RInt(3)), Zero, FALSE, Rat(1, 2))
    /\ hist = <<SparseBasicGrads, SparseBasicGrads>>
    /\ lrUsed["var0"] = RInt(2)

\* C5: the step counter grows by exactly one per training step, whatever the
\* number of variables of the step: after k steps it is k, every variable of
\* a step uses the same learning rate, and so var0 and var1 both hold what
\* the learning-rate-decay tests expect.
C5_OneStepPerApply ==
    /\ opt.state = "built" =>
          /\ opt.iterations = Len(hist)
          /\ Len(hist) > 0 =>
                /\ DOMAIN lrUsed = DOMAIN hist[Len(hist)]
                /\ \A v \in DOMAIN lrUsed :
                      lrUsed[v] = EffectiveLr(opt, Len(hist) - 1)
    /\ opt.state # "built" => opt.iterations = 0 /\ hist = <<>>
    /\ LrDecayTest(opt) =>
          \A v \in VarIds : \A r \in 1..NumRows(v) :
              vars[v][r] =
                  ExpectedVarLrDecay(v, r, Len(hist), Touches(hist[1][v], r - 1))

\* two steps over both variables with a decaying rate
C5_Witness ==
    /\ IsSGD(opt, ConstantLr(RInt(3)), Zero, FALSE, Rat(1, 2))
    /\ hist = <<DenseGrads, DenseGrads>>
    /\ opt.iterations = 2
    /\ lrUsed = [v \in VarIds |-> RInt(2)]

\* a row no executed update has named
NeverIndexed(v, r) ==
    \A k \in 1..Len(hist) :
        v \in DOMAIN hist[k] => ~Touches(hist[k][v], r - 1)

RECURSIVE RowIter(_, _, _)
\* the dense formulas of the optimizer's configuration, applied to row r of v
\* at every update that names the row, with the contributions of duplicate
\* indices summed; <<variable, accumulator>> after the first k updates
RowIter(v, r, k) ==
    IF k = 0 THEN <<InitVars[v][r], Zero>>
    ELSE LET p == RowIter(v, r, k - 1)
             lr == EffectiveLr(opt, k - 1)
             g == SummedGrad(hist[k][v], r - 1, Len(hist[k][v].indices))
             acc == RSub(RMul(opt.momentum, p[2]), RMul(lr, g))
         IN  IF v \notin DOMAIN hist[k] \/ ~Touches(hist[k][v], r - 1) THEN p
             ELSE IF opt.momentum = Zero THEN <<RSub(p[1], RMul(lr, g)), Zero>>
             ELSE IF opt.nesterov
                  THEN <<RSub(RAdd(p[1], RMul(opt.momentum, acc)), RMul(lr, g)),
                         acc>>
                  ELSE <<RAdd(p[1], acc), acc>>

\* the mutant: a row the gradient does not name is expected to move as well
ExpectedSparseEveryRow(v, r, step, indexed) ==
    <<ExpectedVarTestBasic(v, r, step), ExpectedSlotTestBasic(v, step)>>

\* MomentumOptimizerTest.testSparse, SGD(learning_rate=2.0, momentum=0.9):
\* <<variable, slot>> of a row; a row the gradient names holds what the dense
\* test expects, any other row its initial value and a zero slot
ExpectedSparseMomentum(v, r, step, indexed) ==
    IF indexed
    THEN <<ExpectedVarTestBasic(v, r, step), ExpectedSlotTestBasic(v, step)>>
    ELSE <<InitVars[v][r], Zero>>

\* the sparse momentum test on this model's variables: the same one-row
\* gradients at every step
SparseMomentumTest ==
    /\ IsSGD(opt, ConstantLr(RInt(2)), Rat(9, 10), FALSE, Zero)
    /\ Len(hist) \in 1..2
    /\ \A k \in 1..Len(hist) : hist[k] = SparseBasicGrads

\* C6: a sparse update changes only the rows its index set names: a row that
\* no update has named holds its initial value and its accumulator row is
\* zero, and a named row follows the dense formulas, with the contributions of
\* duplicate indices summed first.
C6_SparseFrame ==
    /\ opt.state = "built" =>
          \A v \in VarIds : \A r \in 1..NumRows(v) :
              /\ NeverIndexed(v, r) =>
                    /\ vars[v][r] = InitVars[v][r]
                    /\ v \in DOMAIN slots => slots[v][r] = Zero
              /\ vars[v][r] = RowIter(v, r, Len(hist))[1]
              /\ v \in DOMAIN slots => slots[v][r] = RowIter(v, r, Len(hist))[2]
    /\ SparseMomentumTest =>
          \A v \in VarIds : \A r \in 1..NumRows(v) :
              <<vars[v][r], slots[v][r]>> =
                  ExpectedSparseMomentum(v, r, Len(hist),
                                         Touches(hist[1][v], r - 1))

\* an update with a duplicate index next to a row never named, with momentum
C6_Witness ==
    /\ opt.state = "built" /\ RLess(Zero, opt.momentum)
    /\ Len(hist) = 2
    /\ "var0" \in DOMAIN hist[1] /\ hist[1]["var0"].indices = <<0, 0>>
    /\ NeverIndexed("var0", 2)
    /\ vars["var0"][1] # InitVars["var0"][1]
    /\ slots["var0"][2] = Zero

\* the arguments the constructor must refuse
BadArgs(c) ==
    \/ RLess(c.momentum, Zero)
    \/ RLess(One, c.momentum)
    \/ (c.momentum = Zero /\ c.nesterov)

\* C7: the constructor fails with a configuration error whenever momentum is
\* below 0 or above 1 and whenever momentum is 0 with nesterov set, and then
\* no optimizer instance exists: nothing is updated, built or rebuilt.
C7_ConstructorValidation ==
    (opt.state # "unbuilt" /\ BadArgs(args)) =>
        /\ opt = ValueError
        /\ hist = <<>> /\ vars = InitVars /\ slots = NoSlots
        /\ \A op \in OpIds : ops[op] = NotBuilt
        /\ opt2.state = "unbuilt"

\* a refused constructor call of each kind
C7_Witness ==
    /\ opt.state = "ValueError"
    /\ \/ args.momentum = Rat(-1, 10)
       \/ args.momentum = RInt(2)
       \/ (args.momentum = Zero /\ args.nesterov)

\* v was passed to apply_gradients: an update of it was executed or built
Applied(v) == Updated(v) \/ \E op \in OpIds : v \in DOMAIN ops[op]

\* C8 as stated: an accumulator exists for a variable if and only if the
\* variable has received at least one update, and has the variable's shape.
C8_AsStated ==
    opt.state = "built" =>
        \A v \in VarIds :
            /\ v \in DOMAIN slots <=> Updated(v)
            /\ v \in DOMAIN slots => Len(slots[v]) = Len(vars[v])

\* C8 amended: an accumulator exists for a variable if and only if the
\* optimizer has momentum > 0 and the variable has been passed to
\* apply_gradients on this instance (which in graph mode only builds the
\* update, before any update has run); it then has the variable's shape.
C8_SlotExistence ==
    /\ opt.state = "built" =>
          \A v \in VarIds :
              /\ v \in DOMAIN slots <=> (RLess(Zero, opt.momentum) /\ Applied(v))
              /\ v \in DOMAIN slots => Len(slots[v]) = Len(vars[v])
    /\ opt.state # "built" => slots = NoSlots

\* graph mode: the slot of var0 exists and var0 still holds its initial value
C8_Witness ==
    /\ mode = "graph" /\ opt.state = "built"
    /\ "var0" \in DOMAIN slots /\ "var1" \in DOMAIN slots
    /\ hist = <<>> /\ vars = InitVars
    /\ slots["var0"] = ZeroRows("var0")

RECURSIVE Replay(_, _)
\* a new optimizer o applied, from the variables' initial values, to the
\* gradients of the first k updates of the original
Replay(o, k) ==
    IF k = 0
    THEN [vars |-> InitVars, slots |-> NoSlots, iterations |-> 0, lrUsed |-> NoLr]
    ELSE LET p == Replay(o, k - 1)
         IN  DistributedApply(o,
                 [p EXCEPT !.slots = CreateSlots(o, p.slots, p.vars, DOMAIN hist[k])],
                 hist[k])

ValidCall(in) ==
    /\ in.padding \in {"pre", "post"}
    /\ in.truncating \in {"pre", "post"}
    /\ in.hasMaxlen \/ Len(in.sequences) > 0

\* maxlen, or the longest input length when maxlen is not given
Columns(in) ==
    IF in.hasMaxlen THEN in.maxlen
    ELSE CHOOSE w \in 0..MaxSeqLen :
            /\ \A i \in 1..Len(in.sequences) : Len(in.sequences[i]) <= w
            /\ \E i \in 1..Len(in.sequences) : Len(in.sequences[i]) = w

\* row holds k = min(len(s), width) consecutive elements of s in their order,
\* at its right end for 'pre' and at its left end for 'post', and the fill
\* value in every other cell
RowLayout(s, row, width, padding, value) ==
    LET k == Min(Len(s), width)
        off == IF padding = "pre" THEN width - k ELSE 0
    IN  /\ Len(row) = width
        /\ \E start \in 0..(Len(s) - k) :
              \A c \in 1..k : row[off + c] = s[start + c]
        /\ \A c \in 1..width : (c <= off \/ c > off + k) => row[c] = value

\* the array x has the layout the claim describes for the call in
Layout(in, x) ==
    /\ Len(x) = Len(in.sequences)
    /\ \A i \in 1..Len(in.sequences) :
          /\ Len(x[i]) = Columns(in)
          /\ in.padding \in {"pre", "post"} =>
                RowLayout(in.sequences[i], x[i], Columns(in), in.padding, in.value)
          /\ Len(in.sequences[i]) = 0 =>
                \A c \in 1..Len(x[i]) : x[i][c] = in.value

\* C10 as stated: a call with modes 'pre' or 'post' returns an array with
\* len(sequences) rows and maxlen columns (the longest length when maxlen is
\* not given), each row holding the kept elements contiguously and in order,
\* right-aligned for padding 'pre' and left-aligned for 'post', with the fill
\* value elsewhere, an empty sequence giving a row of fill values.
C10_AsStated ==
    (padOut.status # "none" /\ ValidCall(padIn)) =>
        /\ padOut.status = "ok"
        /\ Layout(padIn, padOut.array)

\* every array that a call returns has the layout of C10
Returned_Layout ==
    padOut.status = "ok" => Layout(padIn, padOut.array)

\* every call with maxlen >= 1, or without maxlen, that C10 covers returns
Returns_Unless_Zero ==
    (padOut.status # "none" /\ ValidCall(padIn)
        /\ (padIn.hasMaxlen => padIn.maxlen >= 1)) => padOut.status = "ok"

\* the cells of a row that do not hold the fill value, in their order; no
\* element of a sequence (Tokens) is a fill value (FillValues)
Unfilled(row, value) == SelectSeq(row, LAMBDA c : c # value)

\* what the truncation is stated to keep of s for the width maxlen
KeptAsStated(s, maxlen, truncating) ==
    IF Len(s) <= maxlen THEN s
    ELSE IF truncating = "pre" THEN SubSeq(s, Len(s) - maxlen + 1, Len(s))
    ELSE SubSeq(s, 1, maxlen)

\* C11 as stated: for every maxlen >= 0, 0 included, the call returns and the
\* row of a sequence longer than maxlen holds exactly its last maxlen elements
\* for truncating 'pre' and exactly its first maxlen elements for 'post', and
\* the row of a sequence of length at most maxlen holds the whole sequence.
C11_AsStated ==
    (padOut.status # "none" /\ ValidCall(padIn) /\ padIn.hasMaxlen) =>
        /\ padOut.status = "ok"
        /\ \A i \in 1..Len(padIn.sequences) :
              Unfilled(padOut.array[i], padIn.value)
                 = KeptAsStated(padIn.sequences[i], padIn.maxlen, padIn.truncating)

\* every array that a call with a maxlen returns holds what C11 says is kept
Returned_Kept ==
    (padOut.status = "ok" /\ ValidCall(padIn) /\ padIn.hasMaxlen) =>
        \A i \in 1..Len(padIn.sequences) :
            Unfilled(padOut.array[i], padIn.value)
               = KeptAsStated(padIn.sequences[i], padIn.maxlen, padIn.truncating)

\* the calls of C11 that raise: maxlen = 0, truncating 'pre' and a sequence
\* of two or more elements
Raises_Only_At_Zero ==
    (padOut.status # "none" /\ ValidCall(padIn) /\ padIn.hasMaxlen) =>
        (padOut.status = "ValueError" <=>
            /\ padIn.maxlen = 0
            /\ padIn.truncating = "pre"
            /\ \E i \in 1..Len(padIn.sequences) : Len(padIn.sequences[i]) >= 2)

\* the call names a padding or a truncating mode that is not understood
InvalidMode(in) ==
    in.padding \notin {"pre", "post"} \/ in.truncating \notin {"pre", "post"}

\* C12 as stated: every call whose truncating or padding argument is not
\* 'pre' or 'post' raises ValueError, whatever the sequences are, also when
\* every sequence is empty or the list of sequences is empty.
C12_AsStated ==
    (padOut.status # "none" /\ InvalidMode(padIn)) => padOut.status = "ValueError"

\* a call with a mode that is not understood raises as soon as one sequence
\* has an element
Raises_When_NonEmpty ==
    (padOut.status # "none" /\ InvalidMode(padIn)
        /\ \E i \in 1..Len(padIn.sequences) : Len(padIn.sequences[i]) > 0)
    => padOut.status = "ValueError"

\* a call with a maxlen whose sequences are all empty returns an array of
\* fill values, whatever the modes are
Returns_When_All_Empty ==
    (padOut.status # "none" /\ padIn.hasMaxlen
        /\ \A i \in 1..Len(padIn.sequences) : Len(padIn.sequences[i]) = 0)
    => /\ padOut.status = "ok"
       /\ Len(padOut.array) = Len(padIn.sequences)
       /\ \A i \in 1..Len(padOut.array) :
             padOut.array[i] = [c \in 1..padIn.maxlen |-> padIn.value]

\* the positions of the returned couples that carry the positive label, and
\* those that carry the negative label
PositiveAt == {c \in 1..Len(skOut.labels) :
                  skOut.labels[c] = PositiveLabel(skIn.categorical)}
NegativeAt == {c \in 1..Len(skOut.labels) :
                  skOut.labels[c] = NegativeLabel(skIn.categorical)}

\* C13: no couple skipgrams returns has the token 0 as its first or as its
\* second element, whatever the sequence, the window size, the negative
\* ratio and the sampling table are; this holds for positive and for
\* negative couples.
C13_NoZeroToken ==
    skOut.status = "ok" =>
        \A c \in 1..Len(skOut.couples) :
            skOut.couples[c][1] # 0 /\ skOut.couples[c][2] # 0

\* a call whose sequence holds the token 0 next to a word returned positive
\* and negative couples, with a sampling table
C13_Witness ==
    /\ skOut.status = "ok"
    /\ skIn.sampling_table # NoTable
    /\ \E i \in 1..(Len(skIn.sequence) - 1) :
          skIn.sequence[i] = 0 /\ skIn.sequence[i + 1] # 0
    /\ PositiveAt # {}
    /\ NegativeAt # {}

\* the ordered position pairs (i, j) of C14, positions counted from 1:
\* i # j, j within window_size of i, and neither word is 0
ValidPairs(sequence, window_size) ==
    {q \in (1..Len(sequence)) \X (1..Len(sequence)) :
        /\ q[1] # q[2]
        /\ Max(0, (q[1] - 1) - window_size) <= q[2] - 1
        /\ q[2] - 1 < Min(Len(sequence), (q[1] - 1) + window_size + 1)
        /\ sequence[q[1]] # 0
        /\ sequence[q[2]] # 0}

\* the number of pairs of S that come before q, by i and then by j
Before(S, q) ==
    Cardinality({r \in S : r[1] < q[1] \/ (r[1] = q[1] /\ r[2] < q[2])})

\* C14: with no sampling table, the number of positive couples equals the
\* number of ordered position pairs (i, j) with i # j, j in the window of i
\* and both words not 0; the positive couple of (i, j) is
\* [sequence[i], sequence[j]]: every couple value is returned as often as
\* position pairs give it, and without shuffling the positive couples come
\* first, in the order of (i, j).
C14_PositivePairs ==
    (skOut.status = "ok" /\ skIn.sampling_table = NoTable) =>
        LET valid == ValidPairs(skIn.sequence, skIn.window_size)
        IN  /\ Cardinality(PositiveAt) = Cardinality(valid)
            /\ \A a \in 1..(skIn.vocabulary_size - 1),
                  b \in 1..(skIn.vocabulary_size - 1) :
                  Cardinality({c \in PositiveAt : skOut.couples[c] = <<a, b>>})
                     = Cardinality({q \in valid : /\ skIn.sequence[q[1]] = a
                                                  /\ skIn.sequence[q[2]] = b})
            /\ ~skIn.shuffle =>
                  \A q \in valid :
                      /\ Before(valid, q) + 1 \in PositiveAt
                      /\ skOut.couples[Before(valid, q) + 1]
                            = <<skIn.sequence[q[1]], skIn.sequence[q[2]]>>

\* a call without a sampling table on three words, one of them 0, with a
\* window of 2 returned the couples of the two other words
C14_Witness ==
    /\ skOut.status = "ok"
    /\ skIn.sampling_table = NoTable
    /\ skIn.window_size = 2
    /\ Len(skIn.sequence) = 3
    /\ skIn.sequence[2] = 0
    /\ skIn.sequence[1] # 0
    /\ skIn.sequence[3] # skIn.sequence[1]
    /\ skIn.sequence[3] # 0
    /\ Cardinality(PositiveAt) = 2

\* floor(p * negative_samples)
FloorOfProduct(p, negative_samples) ==
    CHOOSE n \in 0..(2 * p + 1) :
        /\ ~RLess(RMul(RInt(p), negative_samples), RInt(n))
        /\ RLess(RMul(RInt(p), negative_samples), RInt(n + 1))

\* C15: every label is the positive label (1, or [0, 1] when categorical) or
\* the negative label (0, or [1, 0]); the couples with the positive label are
\* window co-occurrences; with negative_samples > 0 there are exactly
\* floor(P * negative_samples) negative couples, P the number of positive
\* couples, and each has the center word of a positive couple as its first
\* element and an integer of 1..vocabulary_size - 1 as its second; with
\* negative_samples = 0 or P = 0 the call returns without a negative couple.
C15_NegativeSamples ==
    skOut.status # "none" =>
        /\ skOut.status = "ok"
        /\ Len(skOut.labels) = Len(skOut.couples)
        /\ PositiveAt \cup NegativeAt = 1..Len(skOut.couples)
        /\ \A c \in PositiveAt :
              \E q \in ValidPairs(skIn.sequence, skIn.window_size) :
                  skOut.couples[c] = <<skIn.sequence[q[1]], skIn.sequence[q[2]]>>
        /\ Cardinality(NegativeAt) =
              IF RLess(Zero, skIn.negative_samples)
              THEN FloorOfProduct(Cardinality(PositiveAt), skIn.negative_samples)
              ELSE 0
        /\ \A c \in NegativeAt :
              /\ \E d \in PositiveAt : skOut.couples[c][1] = skOut.couples[d][1]
              /\ skOut.couples[c][2] \in 1..(skIn.vocabulary_size - 1)
        /\ ~skIn.shuffle =>
              \A c \in PositiveAt, d \in NegativeAt : c < d

\* a call with negative_samples = 1/2 returned three positive couples and
\* one negative couple
C15_Witness ==
    /\ skOut.status = "ok"
    /\ skIn.negative_samples = Rat(1, 2)
    /\ Cardinality(PositiveAt) = 3
    /\ Cardinality(NegativeAt) = 1

\* a call with negative_samples > 0 and no positive couple returned nothing
C15_Witness_NoPositive ==
    /\ skOut.status = "ok"
    /\ RLess(Zero, skIn.negative_samples)
    /\ Len(skIn.sequence) > 0
    /\ skOut.couples = <<>>

\* end_index as the constructor call gives it: len(data) - 1 when None
EndIndexOf(a) == IF a.end_index.given THEN a.end_index.value ELSE Len(a.data) - 1

\* the first usable end-point of the constructor call
StartOf(a) == a.start_index + a.length

\* C16: constructing a TimeseriesGenerator raises ValueError if len(data) #
\* len(targets) or if start_index + length > end_index (end_index being
\* len(data) - 1 when not given), and succeeds otherwise; so every
\* constructed generator has start_index + length <= end_index.
C16_ConstructorValidation ==
    gen.state # "none" =>
        /\ gen.state = "ValueError" <=>
              \/ Len(tsIn.data) # Len(tsIn.targets)
              \/ StartOf(tsIn) > EndIndexOf(tsIn)
        /\ gen.state = "built" <=>
              /\ Len(tsIn.data) = Len(tsIn.targets)
              /\ StartOf(tsIn) <= EndIndexOf(tsIn)
        /\ gen.state = "built" =>
              /\ gen.start_index = StartOf(tsIn)
              /\ gen.end_index = EndIndexOf(tsIn)
              /\ gen.start_index <= gen.end_index

\* a generator whose first end-point is its end_index was constructed
C16_Witness ==
    /\ gen.state = "built"
    /\ tsIn.length > 0
    /\ StartOf(tsIn) = EndIndexOf(tsIn)

\* a call with data and targets of the same length was refused because the
\* first end-point lies one past end_index
C16_Witness_Refused ==
    /\ gen.state = "ValueError"
    /\ Len(tsIn.data) = Len(tsIn.targets)
    /\ StartOf(tsIn) = EndIndexOf(tsIn) + 1

\* ceil(x / d) for d >= 1
CeilDiv(x, d) == CHOOSE n \in -1..(x + 1) : (n - 1) * d < x /\ x <= n * d

\* C17: for a constructed generator (batch_size >= 1, stride >= 1), len(gen)
\* is (end - start + batch_size * stride) // (batch_size * stride), start
\* being start_index + length; this equals
\* ceil((end - start + 1) / (batch_size * stride)) and is at least 1.
C17_LenIsCeiling ==
    tsOut.op = "len" =>
        LET start == StartOf(tsIn)
            end == EndIndexOf(tsIn)
            d == tsIn.batch_size * tsIn.stride
        IN  /\ tsOut.value = (end - start + d) \div d
            /\ tsOut.value = CeilDiv(end - start + 1, d)
            /\ tsOut.value >= 1

\* len(gen) was taken of a generator whose end-points fill two batches
\* exactly, and of one whose last batch is not full
C17_Witness ==
    /\ tsOut.op = "len"
    /\ tsOut.value = 2
    /\ tsIn.batch_size * tsIn.stride = 2
    /\ EndIndexOf(tsIn) - StartOf(tsIn) + 1 = 4

C17_Witness_Partial ==
    /\ tsOut.op = "len"
    /\ tsOut.value = 2
    /\ tsIn.batch_size * tsIn.stride = 2
    /\ EndIndexOf(tsIn) - StartOf(tsIn) + 1 = 3

\* the end-points of a generator: start, start + stride, ... up to end_index
EndPoints(a) ==
    [k \in 1..((EndIndexOf(a) - StartOf(a)) \div a.stride + 1) |->
        StartOf(a) + (k - 1) * a.stride]

\* the end-points of the returned batch, read from its targets
ReturnedEndPoints == [k \in 1..Len(tsOut.targets) |-> tsOut.targets[k] - 100]

\* a batch of a generator that does not shuffle was asked for
Sequential == gen.state = "built" /\ ~gen.shuffle /\ tsOut.op = "getitem"

\* what C18 says of the batches 0..len - 1: none is empty, all but the last
\* hold batch_size samples, and batch b holds the end-points
\* b * batch_size + 1 .. (b + 1) * batch_size of EndPoints, the last batch
\* ending with the last of them
BatchesCoverEndPoints ==
    (Sequential /\ tsOut.index < TsLen(gen)) =>
        LET b == tsOut.index
            all == EndPoints(tsIn)
        IN  /\ tsOut.status = "ok"
            /\ Len(tsOut.targets) >= 1
            /\ Len(tsOut.samples) = Len(tsOut.targets)
            /\ b < TsLen(gen) - 1 => Len(tsOut.targets) = gen.batch_size
            /\ b = TsLen(gen) - 1 =>
                  b * gen.batch_size + Len(tsOut.targets) = Len(all)
            /\ ReturnedEndPoints
                  = SubSeq(all, b * gen.batch_size + 1,
                           b * gen.batch_size + Len(tsOut.targets))

\* C18 as stated: without shuffling, every batch index below len(gen) gives a
\* non-empty batch, every batch but the last has batch_size samples, the
\* end-points of the batches in order are start, start + stride, ... up to
\* end_index, each once, and the index len(gen) gives an empty batch.
C18_AsStated ==
    /\ BatchesCoverEndPoints
    /\ (Sequential /\ tsOut.index = TsLen(gen)) =>
          /\ tsOut.status = "ok"
          /\ tsOut.samples = <<>>
          /\ tsOut.targets = <<>>

\* what the generator does: the batches below len(gen) are as C18 states;
\* the index len(gen) gives an empty batch when reverse is not set and an
\* IndexError when it is
Batches_And_PastEnd ==
    /\ BatchesCoverEndPoints
    /\ (Sequential /\ tsOut.index = TsLen(gen)) =>
          /\ tsOut.samples = <<>>
          /\ tsOut.targets = <<>>
          /\ tsOut.status = (IF gen.reverse THEN "IndexError" ELSE "ok")

\* the last batch of a generator with stride 2 and batch_size 2 was returned
\* and holds one sample
LastBatch_Partial ==
    /\ Sequential
    /\ gen.stride = 2
    /\ gen.batch_size = 2
    /\ tsOut.index = 1
    /\ tsOut.index = TsLen(gen) - 1
    /\ tsOut.status = "ok"
    /\ Len(tsOut.targets) = 1

\* the index len(gen) was asked of a generator with reverse set
PastEnd_Reverse ==
    /\ Sequential
    /\ gen.reverse
    /\ tsOut.index = TsLen(gen)
    /\ tsOut.status = "IndexError"

C20_ReverseFlipsTime ==
    (Sequential /\ gen.reverse /\ tsOut.index < TsLen(gen)) =>
        LET forward == GetItem([gen EXCEPT !.reverse = FALSE], tsOut.index,
                               RowsOf(gen, tsOut.index))
        IN  /\ tsOut.status = "ok"
            /\ forward.status = "ok"
            /\ tsOut.targets = forward.targets
            /\ Len(tsOut.samples) = Len(forward.samples)
            /\ \A j \in 1..Len(tsOut.samples) :
                  /\ Len(tsOut.samples[j]) = Len(forward.samples[j])
                  /\ \A t \in 1..Len(tsOut.samples[j]) :
                        tsOut.samples[j][t]
                           = forward.samples[j][Len(forward.samples[j]) - t + 1]
                  /\ Reversed(tsOut.samples[j]) = forward.samples[j]

\* a batch of two samples of two timesteps each was returned with reverse set
C20_Witness ==
    /\ Sequential
    /\ gen.reverse
    /\ tsOut.status = "ok"
    /\ Len(tsOut.samples) = 2
    /\ Len(tsOut.samples[1]) = 2
    /\ tsOut.samples[1][1] > tsOut.samples[1][2]

\* a batch with at least one sample was returned
BatchReturned ==
    /\ gen.state = "built"
    /\ tsOut.op = "getitem"
    /\ tsOut.status = "ok"
    /\ Len(tsOut.samples) >= 1

\* the timesteps of sample j of the returned batch (data[i] = i)
TimestepsOf(j) == {tsOut.samples[j][k] : k \in 1..Len(tsOut.samples[j])}

----------------------------------------------------------------------------
(* C22 - C23, C29: optimizers.get and optimizers.deserialize               *)

GetDone == regOut.status # "none" /\ regIn.function = "get"

\* what the string or the dict names, as the caller wrote it
NameGiven ==
    IF regIn.identifier.kind = "str" THEN regIn.identifier.value
    ELSE regIn.before.class_name

\* C22: get returns the identifier itself when it is an optimizer instance
\* (of one of the three optimizer base types), the outcome of
\* deserialize(identifier) when it is a dict, the outcome of
\* deserialize({'class_name': identifier, 'config': {}}) when it is a string,
\* a TFOptimizer around it when it is a legacy TF optimizer, and raises
\* ValueError for every other kind of identifier.
C22_GetDispatch ==
    GetDone =>
        LET identifier == regIn.identifier
        IN  /\ identifier.kind \in OptimizerTypes => regOut = Returned(identifier)
            /\ identifier.kind = "dict" => regOut = deserialize(regIn.before).out
            /\ identifier.kind = "str" =>
                 regOut = deserialize([class_name |-> identifier.value,
                                       config |-> EmptyDict]).out
            /\ identifier.kind = "tf.compat.v1.train.Optimizer" =>
                 /\ regOut.status = "returned"
                 /\ regOut.object.kind = "TFOptimizer"
                 /\ regOut.object.value = identifier
            /\ identifier.kind \in {"int", "NoneType"} => regOut = RegValueError

\* get('SGD') has returned an SGD made from the empty config
C22_Witness ==
    /\ GetDone
    /\ regIn.identifier.kind = "str"
    /\ regIn.identifier.value = <<83, 71, 68>>
    /\ regOut = Returned([kind |-> "gradient_descent_v2.SGD", id |-> 0,
                          value |-> EmptyDict])

\* get(optimizer) has returned the optimizer it was given
C22_Witness_Instance ==
    /\ GetDone
    /\ regIn.identifier.kind = "base_optimizer_v2.OptimizerV2"
    /\ regOut.object = regIn.identifier

\* the name in lower case, letter by letter
AllLower(name) ==
    [i \in 1..Len(name) |-> IF name[i] >= 65 /\ name[i] <= 90 THEN name[i] + 32 ELSE name[i]]

\* a get or deserialize call on a string or a dict has returned or raised
NameResolved == regOut.status # "none" /\ regIn.identifier.kind \in {"str", "dict"}

\* C23: a name given in any casing resolves to the class registered under
\* its all-lowercase form, for every registered name; 'LossScaleOptimizerV1'
\* resolves to the class of 'LossScaleOptimizer'.
C23_CaseInsensitive ==
    (NameResolved /\ Registered(AllLower(NameGiven))) =>
        /\ regOut.status = "returned"
        /\ regOut.object.kind = ClassAt(AllLower(NameGiven))
        /\ NameGiven = <<76, 111, 115, 115, 83, 99, 97, 108, 101, 79, 112, 116,
                         105, 109, 105, 122, 101, 114, 86, 49>> =>
             regOut.object.kind = "loss_scale_optimizer.LossScaleOptimizer"

\* deserialize of {'class_name': 'LossScaleOptimizerV1', ...} has returned a
\* LossScaleOptimizer
C23_Witness ==
    /\ NameResolved
    /\ regIn.function = "deserialize"
    /\ NameGiven = <<76, 111, 115, 115, 83, 99, 97, 108, 101, 79, 112, 116,
                     105, 109, 105, 122, 101, 114, 86, 49>>
    /\ regOut.status = "returned"
    /\ regOut.object.kind = "loss_scale_optimizer.LossScaleOptimizer"

\* get('ADAM') has returned an Adam
C23_Witness_Upper ==
    /\ NameResolved
    /\ regIn.identifier.kind = "str"
    /\ NameGiven = <<65, 68, 65, 77>>
    /\ regOut.status = "returned"
    /\ regOut.object.kind = "adam_v2.Adam"

\* a name that no casing of a registered name matches raises ValueError
Unregistered_Raises ==
    (NameResolved /\ ~Registered(AllLower(NameGiven))) => regOut = RegValueError

\* a get or deserialize call on the caller's dict has returned or raised
DictDone == regOut.status # "none" /\ regIn.identifier.kind = "dict"

\* C29: deserialize(config) and get(config) leave the caller's mapping as it
\* was, whatever the casing of its class_name.
C29_AsStated == DictDone => regCfg = regIn.before

\* the caller's 'class_name' is rewritten exactly when it is a registered
\* name written with a capital; nothing else of the mapping changes
Rewritten_When_Cased ==
    DictDone =>
        /\ regCfg.config = regIn.before.config
        /\ regCfg.class_name = IF Registered(AllLower(regIn.before.class_name))
                               THEN AllLower(regIn.before.class_name)
                               ELSE regIn.before.class_name

\* deserialize({'class_name': 'SGD', 'config': {}}) has left 'sgd' in the
\* caller's dict
Rewritten_SGD ==
    /\ DictDone
    /\ regIn.function = "deserialize"
    /\ regIn.before = [class_name |-> <<83, 71, 68>>, config |-> EmptyDict]
    /\ regCfg.class_name = <<115, 103, 100>>

----------------------------------------------------------------------------
(* C24: make_sampling_table                                                *)

TableDone == tblOut.status # "none"

\* table[r], r counted from 0 as in the code
Entry(r) == tblOut.table[r + 1]

\* the ranks the claim compares: 1 <= r <= r' < size
RankPairs ==
    {p \in (1..(tblIn.size - 1)) \X (1..(tblIn.size - 1)) : p[1] <= p[2]}

Empty_Raises_And_First_Pair ==
    TableDone =>
        /\ tblIn.size = 0 <=> tblOut.status = "IndexError"
        /\ tblIn.size >= 2 => Entry(0) = Entry(1)

----------------------------------------------------------------------------
(* C25, C28: the shuffle of skipgrams and its seed                         *)

\* the couples of r, each with its label
Labelled(r) == [c \in 1..Len(r.couples) |-> <<r.couples[c], r.labels[c]>>]

\* the number of positions of s that hold x
Occurrences(s, x) == Cardinality({c \in 1..Len(s) : s[c] = x})

\* t is a permutation of s
PermutationOf(s, t) ==
    /\ Len(s) = Len(t)
    /\ \A c \in 1..Len(s) : Occurrences(s, s[c]) = Occurrences(t, s[c])

\* C25: with shuffle=True the returned couples and labels have the same
\* length and are the generated couples and labels under one common
\* permutation: every returned couple carries the label it was generated
\* with, whether the seed was given or drawn.
C25_ShuffleKeepsLabels ==
    (skOut.status = "ok" /\ skIn.shuffle) =>
        /\ Len(skOut.couples) = Len(skOut.labels)
        /\ Len(skOut.couples) = Len(skPre.couples)
        /\ PermutationOf(Labelled(skPre), Labelled(skOut))

\* a shuffled call with a drawn seed has returned positive and negative
\* couples in another order than they were generated
C25_Witness ==
    /\ skOut.status = "ok"
    /\ skIn.shuffle
    /\ ~skIn.seed.given
    /\ skOut.couples # skPre.couples
    /\ skOut.labels # skPre.labels
    /\ \E c \in 1..Len(skOut.labels) : skOut.labels[c] = PositiveLabel(skIn.categorical)
    /\ \E c \in 1..Len(skOut.labels) : skOut.labels[c] = NegativeLabel(skIn.categorical)

\* the same with a given seed
C25_Witness_Seeded ==
    /\ skOut.status = "ok"
    /\ skIn.shuffle
    /\ skIn.seed.given
    /\ skOut.labels # skPre.labels

\* two calls with the same arguments and the same given seed have returned
BothReturned == skOut.status = "ok" /\ skOut2.status = "ok" /\ skIn.seed.given

\* C28: two calls of skipgrams with identical arguments, a seed that is not
\* None and negative_samples > 0 return identical couples and labels,
\* whatever the global random generator holds before each call.
C28_AsStated ==
    (BothReturned /\ RLess(Zero, skIn.negative_samples)) => skOut2 = skOut

\* without negative samples and without a sampling table nothing is drawn
\* before random.seed(seed), and the two calls agree
Same_When_Nothing_Drawn ==
    (BothReturned /\ skIn.negative_samples = Zero /\ skIn.sampling_table = NoTable)
        => skOut2 = skOut

\* two seeded calls without a sampling table have returned the same number
\* of couples with the same labels, and different negative couples
Seeded_Calls_Differ ==
    /\ BothReturned
    /\ skIn.sampling_table = NoTable
    /\ RLess(Zero, skIn.negative_samples)
    /\ skOut2.labels = skOut.labels
    /\ skOut2.couples # skOut.couples

----------------------------------------------------------------------------
(* C27: TimeseriesGenerator.get_config                                     *)

RECURSIVE ParseItems(_, _, _, _, _)
\* the integers of a JSON list read from position k on; cur is the number
\* being read, reading tells whether a digit of it has been seen
ParseItems(s, k, cur, reading, items) ==
    IF k > Len(s) THEN items
    ELSE IF s[k] >= 48 /\ s[k] <= 57
    THEN ParseItems(s, k + 1, cur * 10 + (s[k] - 48), TRUE, items)
    ELSE IF reading /\ s[k] \in {44, 93}
    THEN ParseItems(s, k + 1, 0, FALSE, Append(items, cur))
    ELSE ParseItems(s, k + 1, 0, FALSE, items)

\* json.loads of the encoding of a list of integers
JsonLoads(s) == ParseItems(s, 1, 0, FALSE, <<>>)

ConfigReturned == tsOut.op = "get_config"

\* the generator constructed from the values of a configuration
Rebuilt(c) ==
    TimeseriesGenerator(
        [data |-> JsonLoads(c.data), targets |-> JsonLoads(c.targets),
         length |-> c.length, sampling_rate |-> c.sampling_rate,
         stride |-> c.stride, start_index |-> c.start_index,
         end_index |-> [given |-> TRUE, value |-> c.end_index],
         shuffle |-> c.shuffle, reverse |-> c.reverse,
         batch_size |-> c.batch_size])

\* g and h have the same number of batches and return the same batch at
\* every index, for the same choice of rows when they shuffle
SameBatches(g, h) ==
    /\ TsLen(g) = TsLen(h)
    /\ \A index \in 0..(TsLen(g) - 1) :
          /\ RowChoices(g, index) = RowChoices(h, index)
          /\ \A rows \in RowChoices(g, index) :
                GetItem(g, index, rows) = GetItem(h, index, rows)

\* the fields of a configuration other than start_index are the
\* constructor's values, data and targets as JSON
ConfigOfArguments(c) ==
    /\ DOMAIN c = {"data", "targets", "length", "sampling_rate", "stride",
                   "start_index", "end_index", "shuffle", "reverse", "batch_size"}
    /\ c.length = tsIn.length
    /\ c.sampling_rate = tsIn.sampling_rate
    /\ c.stride = tsIn.stride
    /\ c.shuffle = tsIn.shuffle
    /\ c.reverse = tsIn.reverse
    /\ c.batch_size = tsIn.batch_size
    /\ c.end_index = EndIndexOf(tsIn)
    /\ JsonLoads(c.data) = tsIn.data
    /\ JsonLoads(c.targets) = tsIn.targets

\* C27: get_config returns exactly the keys data, targets, length,
\* sampling_rate, stride, start_index, end_index, shuffle, reverse and
\* batch_size; length, sampling_rate, stride, start_index, shuffle, reverse
\* and batch_size are the constructor's values, end_index is the
\* constructor's (len(data) - 1 when none was given), data and targets are
\* JSON encodings of the data and targets; a generator constructed from these
\* values yields the same batches as the original.
C27_AsStated ==
    ConfigReturned =>
        /\ ConfigOfArguments(tsOut.config)
        /\ tsOut.config.start_index = tsIn.start_index
        /\ Rebuilt(tsOut.config).state = "built"
        /\ SameBatches(gen, Rebuilt(tsOut.config))

\* every field but start_index is the constructor's, and start_index is the
\* constructor's plus length
Config_Start_Shifted ==
    ConfigReturned =>
        /\ ConfigOfArguments(tsOut.config)
        /\ tsOut.config.start_index = tsIn.start_index + tsIn.length

\* with length = 0 the configuration rebuilds the generator
Config_Rebuilds_When_No_Window ==
    (ConfigReturned /\ tsIn.length = 0) =>
        /\ tsOut.config.start_index = tsIn.start_index
        /\ Rebuilt(tsOut.config).state = "built"
        /\ SameBatches(gen, Rebuilt(tsOut.config))

\* a configuration of a generator with length 2 over five timesteps has been
\* returned with start_index 2, and rebuilds a generator with fewer batches
Config_Loses_Batches ==
    /\ ConfigReturned
    /\ tsIn.length = 2 /\ tsIn.start_index = 0 /\ Len(tsIn.data) = 5
    /\ tsOut.config.start_index = 2
    /\ Rebuilt(tsOut.config).state = "built"
    /\ TsLen(Rebuilt(tsOut.config)) < TsLen(gen)

\* a configuration that cannot be used to construct a generator has been
\* returned
Config_Refused ==
    /\ ConfigReturned
    /\ Rebuilt(tsOut.config).state = "ValueError"

----------------------------------------------------------------------------
(* C26: two update ops of one optimizer share the accumulators             *)

\* both update ops of the graph have been built
BothBuilt ==
    /\ mode = "graph"
    /\ opt.state = "built"
    /\ \A op \in OpIds : ops[op] # NotBuilt

\* MomentumOptimizerTest.testSharing: SGD(learning_rate=2.0, momentum=0.9),
\* mom_update1 and mom_update2 built from the same dense gradients, and one
\* or two of them run
TestSharing ==
    /\ BothBuilt
    /\ IsSGD(opt, ConstantLr(RInt(2)), Rat(9, 10), FALSE, Zero)
    /\ \A op \in OpIds : ops[op] = [v \in VarIds |-> DenseGrad(v)]
    /\ Len(hist) \in 1..2

\* testSharing's expected variables: after mom_update1, x - (g * 2.0); after
\* mom_update2, x - (0.1 * 2.0) - ((0.9 * 0.1 + 0.1) * 2.0) for var0 and
\* 2.98 - ((0.9 * 0.01 + 0.01) * 2.0), 3.98 - ... for var1
ExpectedVarTestSharing(v, r, step) ==
    IF step = 1 THEN RSub(InitVars[v][r], RMul(GradValue(v), RInt(2)))
    ELSE IF v = "var0"
    THEN RSub(RSub(InitVars[v][r], RMul(Rat(1, 10), RInt(2))),
              RMul(RAdd(RMul(Rat(9, 10), Rat(1, 10)), Rat(1, 10)), RInt(2)))
    ELSE RSub(IF r = 1 THEN Rat(298, 100) ELSE Rat(398, 100),
              RMul(RAdd(RMul(Rat(9, 10), Rat(1, 100)), Rat(1, 100)), RInt(2)))

\* the mutant: mom_update2 starts from an accumulator of its own
ExpectedSlotOwnAccumulator(v, step) ==
    IF v = "var0" THEN RNeg(Rat(2, 10)) ELSE RNeg(Rat(2, 100))

\* testSharing's expected slots: -0.2 and -0.02 after mom_update1,
\* 0.9 * (-0.2) - 2.0 * 0.1 and 0.9 * (-0.02) - 2.0 * 0.01 after mom_update2
ExpectedSlotTestSharing(v, step) ==
    IF step = 1 THEN (IF v = "var0" THEN RNeg(Rat(2, 10)) ELSE RNeg(Rat(2, 100)))
    ELSE IF v = "var0"
    THEN RSub(RMul(Rat(9, 10), RNeg(Rat(2, 10))), RMul(RInt(2), Rat(1, 10)))
    ELSE RSub(RMul(Rat(9, 10), RNeg(Rat(2, 100))), RMul(RInt(2), Rat(1, 100)))

\* C26: a second request for the accumulator of a variable returns the
\* accumulator that exists, with its contents, so the two update ops built
\* from one optimizer for the same variables work on one accumulator for each
\* variable; running them one after the other leaves the variables and the
\* accumulators where the same optimizer, as a single sequence of steps over
\* the same gradients, leaves them, and at the values testSharing expects.
C26_SharedAccumulators ==
    /\ opt.state = "built" =>
          \A S \in SUBSET VarIds :
              LET once == CreateSlots(opt, slots, vars, S)
              IN  /\ CreateSlots(opt, once, vars, S) = once
                  /\ \A v \in DOMAIN slots : once[v] = slots[v]
    /\ (BothBuilt /\ RLess(Zero, opt.momentum)) =>
          /\ DOMAIN slots = VarIds
          /\ Len(hist) >= 1 =>
                /\ vars = Replay(opt, Len(hist)).vars
                /\ slots = Replay(opt, Len(hist)).slots
          /\ ~opt.nesterov =>
                \A v \in VarIds :
                    DenseOnly(v) => /\ vars[v] = ClassicalIter(v, Len(hist)).var
                                    /\ slots[v] = ClassicalIter(v, Len(hist)).accum
    /\ TestSharing =>
          \A v \in VarIds : \A r \in 1..NumRows(v) :
              /\ vars[v][r] = ExpectedVarTestSharing(v, r, Len(hist))
              /\ slots[v][r] = ExpectedSlotTestSharing(v, Len(hist))

\* mom_update1 and mom_update2 of testSharing have both run
C26_Witness ==
    /\ TestSharing
    /\ Len(hist) = 2
    /\ slots["var0"][1] = Rat(-38, 100)

\* two ops built from different gradients have run one after the other
C26_Witness_Mixed ==
    /\ BothBuilt
    /\ RLess(Zero, opt.momentum)
    /\ ops["update1"] # ops["update2"]
    /\ hist = <<ops["update1"], ops["update2"]>>

====
